---- MODULE Spec2Model ----
(***************************************************************************)
(* Pintos priority scheduler with priority donation                        *)
(* (threads/thread.c, threads/synch.c, devices/timer.c).                   *)
(*                                                                         *)
(* One CPU.  The running thread executes its kernel calls one C statement  *)
(* at a time; a section bracketed by intr_disable()/intr_set_level() is    *)
(* one step.  The timer interrupt can fire between any two steps taken     *)
(* with interrupts enabled, and on every TIME_SLICE-th tick of a slice it  *)
(* yields the running thread on return.  lock_acquire, lock_release and    *)
(* thread_set_priority run with interrupts enabled outside sema_down,      *)
(* sema_up and the preemption check, so they are several steps each.       *)
(* The helpers donate_priority, remove_donations and the list operations   *)
(* are taken as one step each.  allocate_tid's use of tid_lock is left     *)
(* out: thread ids are the indices of Threads.  thread_exit, timer_sleep,  *)
(* semaphores that belong to no lock, downed by threads and upped by an    *)
(* interrupt handler, condition variables, thread_block and thread_unblock *)
(* called directly, and calls that break a function's contract are         *)
(* modelled as well.                                                       *)
(***************************************************************************)
EXTENDS Integers, Sequences, FiniteSets, TLC

\* ---------------------------------------------------------------- bounds
\* Spec: every call, the timer included.
NThreads == 3
NLocks == 2
PriLevels == 3
MaxTicks == 4
MaxSleep == 1
MaxCalls == 5
\* SpecDonation: locks and thread creation only, no timer interrupt.
DonationThreads == 4
DonationLocks == 3
DonationCalls == 10
\* Bounds of SpecChain: the number of holders in the prepared chain.
MaxChain == 9
\* SpecSetPriority: SpecDonation's calls and thread_set_priority.
SetPriorityThreads == 4
SetPriorityLocks == 2
SetPriorityCalls == 9
\* SpecWake: SpecDonation's calls with threads of equal priority.
WakeThreads == 4
WakeLocks == 2
WakeCalls == 9
\* SpecSleep: thread creation, timer_sleep and the timer interrupt.
SleepThreads == 4
SleepTicks == 5
SleepCalls == 6
MaxNegativeSleepArg == 1
MaxSleepArg == 3
\* SpecIsr: semaphores downed by threads and upped by an interrupt handler.
IsrThreads == 3
IsrSemas == 2
IsrCalls == 5
MaxValue == 2
\* SpecFifo: SpecDonation's calls, thread_yield and threads created at any
\* of FifoLevels priorities above PRI_DEFAULT.
FifoThreads == 5
FifoLocks == 2
FifoCalls == 8
FifoLevels == 3
\* SpecCond: one lock, one condition variable, thread creation.
CondThreads == 4
CondCalls == 12
\* SpecContract: SpecCond's calls, calls that break a function's contract
\* and calls made by an interrupt handler.
ContractThreads == 3
ContractCalls == 9
\* SpecUnblock: SpecFifo's calls, thread_block and thread_unblock.
UnblockThreads == 5
UnblockLocks == 1
UnblockCalls == 8
\* SpecLive: threads that take locks in increasing order, release what they
\* hold and exit, under timer interrupts.
LiveThreads == 3
LiveLocks == 2
LiveCalls == 3
LiveTicks == 8

\* ------------------------------------------------------ program constants
PRI_MIN == 0
PRI_DEFAULT == 31
PRI_MAX == 63
TIME_SLICE == 4
MAX_DEPTH == 8
NULL == -1

idle_thread == 0
initial_thread == 1
Threads == 0..NThreads
Locks == 1..NLocks
Prios == PRI_DEFAULT..(PRI_DEFAULT + PriLevels - 1)

VARIABLES
  status,            \* thread -> "NEW" | "RUNNING" | "READY" | "BLOCKED" | "DYING" | "FREED"
  priority,          \* thread -> effective priority
  original_priority, \* thread -> base priority
  donators,          \* thread -> list of threads (donation_elem)
  waiting_lock,      \* thread -> lock or NULL
  wakeup_tick,       \* thread -> tick
  pc,                \* thread -> the statement it executes next
  arg,               \* thread -> the lock of the call in progress, or NULL
  holder,            \* lock -> thread or NULL
  value,             \* lock -> value of lock->semaphore
  waiters,           \* lock -> list of threads (elem) of lock->semaphore
  arrivals,          \* lock -> the parked threads in the order they queued
                     \* (history: the list itself is kept by priority);
                     \* SleepLog -> the threads inside timer_sleep in the
                     \* order they called it, in the runs that keep it
  cond_waiters,      \* condition -> list of semaphore_elems, each named by
                     \* the thread on whose stack it lies
  cond_arg,          \* thread -> the condition of the call in progress, or NULL
  ready_list,        \* list of threads (elem)
  destruction_req,   \* list of dying threads whose page is to be freed
  sleep_list,        \* list of threads (elem)
  ticks,             \* timer ticks since boot
  thread_ticks,      \* ticks of the current time slice
  running,           \* running_thread()
  panic,             \* the kernel has stopped (failed assertion or fault)
  calls              \* kernel calls the threads may still start

vars == <<status, priority, original_priority, donators, waiting_lock,
          wakeup_tick, pc, arg, holder, value, waiters, arrivals,
          cond_waiters, cond_arg,
          ready_list, destruction_req, sleep_list, ticks, thread_ticks,
          running, panic, calls>>

\* The threads of the run (the threads of the specification's initial state).
AllThreads == DOMAIN status

\* The locks of the run.
AllLocks == DOMAIN holder

\* The semaphores that belong to no lock (sema_init to 0).
AllSemas == DOMAIN value \ DOMAIN holder

\* ------------------------------------------------------------------ lists
Min(S) == CHOOSE x \in S : \A y \in S : x <= y
Max(S) == CHOOSE x \in S : \A y \in S : x >= y
Elems(list) == {list[i] : i \in 1..Len(list)}
Pos(list, x) == CHOOSE i \in 1..Len(list) : list[i] = x

\* list_insert_ordered: before the first element e with less[elem, e]; less
\* is the comparison function handed to the list routine.
list_insert_ordered(list, elem, less) ==
  LET idx == {i \in 1..Len(list) : less[elem, list[i]]}
      k == IF idx = {} THEN Len(list) + 1 ELSE Min(idx)
  IN SubSeq(list, 1, k - 1) \o <<elem>> \o SubSeq(list, k, Len(list))

\* list_sort: stable sort by less.
list_sort(list, less) ==
  LET n == Len(list)
      rank(i) == 1 + Cardinality({j \in 1..n :
                       \/ less[list[j], list[i]]
                       \/ (~less[list[i], list[j]] /\ j < i)})
  IN [k \in 1..n |-> list[CHOOSE i \in 1..n : rank(i) = k]]

compare_ready_priority(prio, a, b) == prio[a] > prio[b]
compare_donation_priority(prio, a, b) == prio[a] > prio[b]
\* A compare_tick that puts the later deadline first.
compare_tick_reversed(wake, a, b) == wake[a] > wake[b]
\* A compare_tick that puts a thread ahead of those of the same deadline.
compare_tick_or_equal(wake, a, b) == wake[a] <= wake[b]
compare_tick(wake, a, b) == wake[a] < wake[b]

ReadyInsert(list, t, prio) ==
  list_insert_ordered(list, t, [a, b \in AllThreads |-> compare_ready_priority(prio, a, b)])


\* ------------------------------------------------------------------- Init
\* The state when thread_start() returns: main runs at PRI_DEFAULT; the idle
\* thread has set idle_thread, upped idle_started and yielded inside that
\* sema_up (READY, but thread_yield does not queue the idle thread).
BootAll(Thr, Lks, Sms, Cvs, budget) ==
  /\ status = [t \in Thr |->
                 IF t = initial_thread THEN "RUNNING"
                 ELSE IF t = idle_thread THEN "READY" ELSE "NEW"]
  /\ priority = [t \in Thr |-> IF t = idle_thread THEN PRI_MIN ELSE PRI_DEFAULT]
  /\ original_priority = [t \in Thr |-> IF t = idle_thread THEN PRI_MIN ELSE PRI_DEFAULT]
  /\ donators = [t \in Thr |-> <<>>]
  /\ waiting_lock = [t \in Thr |-> NULL]
  /\ wakeup_tick = [t \in Thr |-> 0]
  /\ pc = [t \in Thr |-> IF t = idle_thread THEN "idle_loop" ELSE "user"]
  /\ arg = [t \in Thr |-> NULL]
  /\ holder = [l \in Lks |-> NULL]
  /\ value = [l \in Lks \cup Sms |-> IF l \in Lks THEN 1 ELSE 0]
  /\ waiters = [l \in Lks \cup Sms |-> <<>>]
  /\ arrivals = [l \in Lks \cup Sms |-> <<>>]
  /\ cond_waiters = [c \in Cvs |-> <<>>]
  /\ cond_arg = [t \in Thr |-> NULL]
  /\ ready_list = <<>>
  /\ destruction_req = <<>>
  /\ sleep_list = <<>>
  /\ ticks = 0
  /\ thread_ticks = 0
  /\ running = initial_thread
  /\ panic = FALSE
  /\ calls = budget

\* The same without condition variables.
BootWith(Thr, Lks, Sms, budget) == BootAll(Thr, Lks, Sms, {}, budget)

\* The same with locks only.
Boot(Thr, Lks, budget) == BootWith(Thr, Lks, {}, budget)

Init == Boot(Threads, Locks, MaxCalls)

\* -------------------------------------------------------------- scheduler
next_thread_to_run(rl) == IF rl = <<>> THEN idle_thread ELSE Head(rl)

\* A schedule that leaves the thread it dispatches on the ready list.
schedule_keep_queued(st, rl, dr) ==
  LET next == next_thread_to_run(rl)
  IN /\ status' = [st EXCEPT ![next] = "RUNNING"]
     /\ ready_list' = rl
     /\ running' = next
     /\ thread_ticks' = 0
     /\ destruction_req' =
          IF running # next /\ st[running] = "DYING" /\ running # initial_thread
          THEN Append(dr, running)
          ELSE dr

\* schedule(), entered with the caller's new status already in st and the
\* destruction queue dr: a dying thread other than initial_thread that is
\* switched away from is queued for destruction.
schedule(st, rl, dr) ==
  LET next == next_thread_to_run(rl)
  IN /\ status' = [st EXCEPT ![next] = "RUNNING"]
     /\ ready_list' = IF rl = <<>> THEN rl ELSE Tail(rl)
     /\ running' = next
     /\ thread_ticks' = 0
     /\ destruction_req' =
          IF running # next /\ st[running] = "DYING" /\ running # initial_thread
          THEN Append(dr, running)
          ELSE dr

\* do_schedule(new_status): free the pages queued for destruction, set the
\* caller's status, schedule.
do_schedule(st, rl, new_status) ==
  LET freed == [t \in AllThreads |->
                  IF t \in Elems(destruction_req) THEN "FREED" ELSE st[t]]
  IN schedule([freed EXCEPT ![running] = new_status], rl, <<>>)

\* A thread_block that marks the caller THREAD_DYING.
thread_block_dying(st, rl) ==
  schedule([st EXCEPT ![running] = "DYING"], rl, destruction_req)

\* A thread_block that leaves the caller's status as it was.
thread_block_keep(st, rl) == schedule(st, rl, destruction_req)

\* thread_block(): the caller has already queued itself where it waits.
thread_block(st, rl) ==
  schedule([st EXCEPT ![running] = "BLOCKED"], rl, destruction_req)

\* A thread_unblock that does not queue the thread.
thread_unblock_lost(rl, t, prio) == rl

\* thread_unblock(t) on statuses st and ready list rl: the new ready list.
thread_unblock(rl, t, prio) == ReadyInsert(rl, t, prio)

\* A thread_yield that queues the idle thread like any other.
thread_yield_all(st, rl, prio) ==
  do_schedule(st, ReadyInsert(rl, running, prio), "READY")

\* thread_yield(): the idle thread is not queued.
thread_yield(st, rl, prio) ==
  do_schedule(st,
              IF running # idle_thread THEN ReadyInsert(rl, running, prio) ELSE rl,
              "READY")

\* preemption_by_priority(): yield when the front of the ready list outranks
\* the running thread.
preemption_by_priority(st, rl, prio) ==
  IF rl # <<>> /\ prio[running] < prio[Head(rl)]
  THEN thread_yield(st, rl, prio)
  ELSE /\ status' = st
       /\ ready_list' = rl
       /\ UNCHANGED <<running, thread_ticks, destruction_req>>

\* The running thread t is about to execute the statement labelled at.
Runs(t, at) == ~panic /\ running = t /\ pc[t] = at

\* A thread other than idle starts a kernel call from its own code.
Call(t) ==
  /\ Runs(t, "user") /\ t # idle_thread
  /\ calls > 0
  /\ calls' = calls - 1

\* Interrupts are off while a thread woken inside sema_down has not yet left
\* its critical section.
IntrOn == pc[running] \notin {"la_blocked", "sd_blocked", "cw_blocked"}

sched == <<status, ready_list, running, thread_ticks, destruction_req>>
donation == <<priority, original_priority, donators, waiting_lock>>
locks == <<holder, value, waiters, arrivals>>
timer == <<wakeup_tick, sleep_list, ticks>>
conds == <<cond_waiters, cond_arg>>

\* -------------------------------------------------------------- semaphore
\* A sema_down whose woken waiter decrements without testing the value
\* again.
sema_down_at_once(t, l, blocked, done) ==
  IF value[l] = 0 /\ pc[t] # blocked
  THEN /\ waiters' = [waiters EXCEPT ![l] = ReadyInsert(@, t, priority)]
       /\ arrivals' = [arrivals EXCEPT ![l] = Append(@, t)]
       /\ thread_block(status, ready_list)
       /\ pc' = [pc EXCEPT ![t] = blocked]
       /\ UNCHANGED value
  ELSE /\ value' = [value EXCEPT ![l] = @ - 1]
       /\ pc' = [pc EXCEPT ![t] = done]
       /\ UNCHANGED <<waiters, arrivals, sched>>

\* sema_down(&lock->semaphore) by t, from its entry (synch.c:77) or from the
\* return of thread_block (synch.c:85), to intr_set_level or the next block.
sema_down_at(t, l, blocked, done) ==
  IF value[l] = 0
  THEN /\ waiters' = [waiters EXCEPT ![l] = ReadyInsert(@, t, priority)]
       /\ arrivals' = [arrivals EXCEPT ![l] = Append(@, t)]
       /\ thread_block(status, ready_list)
       /\ pc' = [pc EXCEPT ![t] = blocked]
       /\ UNCHANGED value
  ELSE /\ value' = [value EXCEPT ![l] = @ - 1]
       /\ pc' = [pc EXCEPT ![t] = done]
       /\ UNCHANGED <<waiters, arrivals, sched>>

\* The sema_down of lock_acquire (synch.c:360).
sema_down(t, l) == sema_down_at(t, l, "la_blocked", "la_hold")

\* A sema_up that increments the value and wakes nobody.
sema_up_no_wake(l) ==
  /\ UNCHANGED <<waiters, arrivals>>
  /\ value' = [value EXCEPT ![l] = @ + 1]
  /\ preemption_by_priority(status, ready_list, priority)

\* sema_up(&lock->semaphore): sort the waiters, wake the front, increment,
\* run the preemption check.
sema_up(l) ==
  LET w == list_sort(waiters[l], [a, b \in AllThreads |-> compare_ready_priority(priority, a, b)])
      woke == waiters[l] # <<>>
      st == IF woke THEN [status EXCEPT ![Head(w)] = "READY"] ELSE status
      rl == IF woke THEN thread_unblock(ready_list, Head(w), priority) ELSE ready_list
  IN /\ waiters' = [waiters EXCEPT ![l] = IF woke THEN Tail(w) ELSE @]
     /\ arrivals' = [arrivals EXCEPT ![l] =
                       IF woke THEN SelectSeq(@, LAMBDA x : x # Head(w)) ELSE @]
     /\ value' = [value EXCEPT ![l] = @ + 1]
     /\ preemption_by_priority(st, rl, priority)

\* sema_try_down(&lock->semaphore): TRUE iff the value can be decremented.
\* A sema_try_down that succeeds whatever the value.
sema_try_down_any(l) == TRUE

\* A sema_try_down that never succeeds.
sema_try_down_never(l) == FALSE

sema_try_down(l) == value[l] > 0

\* --------------------------------------------------------------- donation
\* donate_priority(h) called by cur: the priorities after the walk.
RECURSIVE donate_walk(_, _, _, _)
donate_walk(prio, cur, h, depth) ==
  IF h = NULL \/ depth >= MAX_DEPTH THEN prio
  ELSE LET p1 == IF prio[cur] > prio[h] THEN [prio EXCEPT ![h] = prio[cur]] ELSE prio
       IN IF waiting_lock[h] # NULL
          THEN donate_walk(p1, cur, holder[waiting_lock[h]], depth + 1)
          ELSE p1

\* A donation that hands over the caller's priority whatever the holder's.
donate_priority_always(cur, h) ==
  IF h # NULL THEN [priority EXCEPT ![h] = priority[cur]] ELSE priority

\* A donation that stops at the lock's holder.
donate_priority_direct(cur, h) ==
  IF h # NULL /\ priority[cur] > priority[h]
  THEN [priority EXCEPT ![h] = priority[cur]]
  ELSE priority

\* A donation whose depth counter starts at one.
donate_priority_short(cur, h) == donate_walk(priority, cur, h, 1)

donate_priority(cur, h) == donate_walk(priority, cur, h, 0)

\* remove_donations(lock) by t: t's donators without those waiting on lock.
\* A removal that empties the list.
remove_donations_all(t, l) == <<>>

remove_donations(t, l) == SelectSeq(donators[t], LAMBDA d : waiting_lock[d] # l)

\* recaculate_priority(), second half: the front donor's priority if higher.
recaculate_priority(t) ==
  IF donators[t] # <<>> /\ priority[Head(donators[t])] > priority[t]
  THEN priority[Head(donators[t])]
  ELSE priority[t]


\* lock_held_by_current_thread(lock), called by t.
\* A test that never finds the caller holding the lock.
lock_held_by_current_thread_never(t, l) == FALSE

lock_held_by_current_thread(t, l) == holder[l] = t

\* ----------------------------------------------------------- lock_acquire
\* synch.c:342-347: the assertions and the test of lock->holder.
LockAcquire(t, l) ==
  /\ Call(t)
  /\ ~lock_held_by_current_thread(t, l)
  /\ pc' = [pc EXCEPT ![t] = IF holder[l] # NULL THEN "la_wait" ELSE "la_down"]
  /\ arg' = [arg EXCEPT ![t] = l]
  /\ UNCHANGED <<conds, sched, donation, locks, timer, panic>>

\* synch.c:351: thread_current()->waiting_lock = lock.
LaWait(t) ==
  /\ Runs(t, "la_wait")
  /\ waiting_lock' = [waiting_lock EXCEPT ![t] = arg[t]]
  /\ pc' = [pc EXCEPT ![t] = "la_insert"]
  /\ UNCHANGED <<conds, sched, priority, original_priority, donators, arg, locks, timer, panic, calls>>

\* synch.c:354: insert into lock->holder->donators.  lock->holder is read
\* again; when the lock was released meanwhile it is NULL and the insertion
\* dereferences it, which faults.
LaInsert(t) ==
  /\ Runs(t, "la_insert")
  /\ IF holder[arg[t]] = NULL
     THEN /\ panic' = TRUE
          /\ UNCHANGED <<donators, pc>>
     ELSE /\ donators' = [donators EXCEPT ![holder[arg[t]]] =
               list_insert_ordered(@, t,
                  [a, b \in AllThreads |-> compare_donation_priority(priority, a, b)])]
          /\ pc' = [pc EXCEPT ![t] = "la_donate"]
          /\ UNCHANGED panic
  /\ UNCHANGED <<conds, sched, priority, original_priority, waiting_lock, arg, locks, timer, calls>>

\* synch.c:357: donate_priority(lock->holder).
LaDonate(t) ==
  /\ Runs(t, "la_donate")
  /\ priority' = donate_priority(t, holder[arg[t]])
  /\ pc' = [pc EXCEPT ![t] = "la_down"]
  /\ UNCHANGED <<conds, sched, original_priority, donators, waiting_lock, arg, locks, timer, panic, calls>>

\* synch.c:361: sema_down(&lock->semaphore), first entry.
LaDown(t) ==
  /\ Runs(t, "la_down")
  /\ sema_down(t, arg[t])
  /\ UNCHANGED <<conds, donation, arg, holder, timer, panic, calls>>

\* synch.c:80-92: a waiter dispatched again re-tests the value.
SemaDownResume(t) ==
  /\ Runs(t, "la_blocked")
  /\ sema_down(t, arg[t])
  /\ UNCHANGED <<conds, donation, arg, holder, timer, panic, calls>>

\* synch.c:364: lock->holder = thread_current().
LaHold(t) ==
  /\ Runs(t, "la_hold")
  /\ holder' = [holder EXCEPT ![arg[t]] = t]
  /\ pc' = [pc EXCEPT ![t] = "la_clear"]
  /\ UNCHANGED <<conds, sched, donation, arg, value, waiters, arrivals, timer, panic, calls>>

\* synch.c:367: thread_current()->waiting_lock = NULL.  lock_acquire returns,
\* and with it the cond_wait that called it (synch.c:764).
LaClear(t) ==
  /\ Runs(t, "la_clear")
  /\ waiting_lock' = [waiting_lock EXCEPT ![t] = NULL]
  /\ pc' = [pc EXCEPT ![t] = "user"]
  /\ arg' = [arg EXCEPT ![t] = NULL]
  /\ cond_arg' = [cond_arg EXCEPT ![t] = NULL]
  /\ UNCHANGED <<cond_waiters, sched, priority, original_priority, donators, locks, timer, panic, calls>>

\* ------------------------------------------------------- lock_try_acquire
\* synch.c:476-481: the assertions and sema_try_down.
LockTryAcquire(t, l) ==
  /\ Call(t)
  /\ ~lock_held_by_current_thread(t, l)
  /\ IF sema_try_down(l)
     THEN /\ value' = [value EXCEPT ![l] = @ - 1]
          /\ pc' = [pc EXCEPT ![t] = "ta_hold"]
          /\ arg' = [arg EXCEPT ![t] = l]
     ELSE UNCHANGED <<value, pc, arg>>
  /\ UNCHANGED <<conds, sched, donation, holder, waiters, arrivals, timer, panic>>

\* synch.c:484-486: lock->holder = thread_current(); return.
TaHold(t) ==
  /\ Runs(t, "ta_hold")
  /\ holder' = [holder EXCEPT ![arg[t]] = t]
  /\ pc' = [pc EXCEPT ![t] = "user"]
  /\ arg' = [arg EXCEPT ![t] = NULL]
  /\ UNCHANGED <<conds, sched, donation, value, waiters, arrivals, timer, panic, calls>>

\* ----------------------------------------------------------- lock_release
\* synch.c:523-527: the assertions and remove_donations(lock).
LockRelease(t, l) ==
  /\ Call(t)
  /\ lock_held_by_current_thread(t, l)
  /\ donators' = [donators EXCEPT ![t] = remove_donations(t, l)]
  /\ pc' = [pc EXCEPT ![t] = "lr_base"]
  /\ arg' = [arg EXCEPT ![t] = l]
  /\ UNCHANGED <<conds, sched, priority, original_priority, waiting_lock, locks, timer, panic>>

\* synch.c:616 / thread.c:424: priority = original_priority.
RecalcBase(t) ==
  /\ \/ Runs(t, "lr_base") /\ pc' = [pc EXCEPT ![t] = "lr_donor"]
     \/ Runs(t, "sp_base") /\ pc' = [pc EXCEPT ![t] = "sp_donor"]
  /\ priority' = [priority EXCEPT ![t] = original_priority[t]]
  /\ UNCHANGED <<conds, sched, original_priority, donators, waiting_lock, arg, locks, timer, panic, calls>>

\* synch.c:620-632: take the front donor's priority when it is higher.
RecalcDonor(t) ==
  /\ \/ Runs(t, "lr_donor") /\ pc' = [pc EXCEPT ![t] = "lr_clear"]
     \/ Runs(t, "sp_donor") /\ pc' = [pc EXCEPT ![t] = "sp_preempt"]
  /\ priority' = [priority EXCEPT ![t] = recaculate_priority(t)]
  /\ UNCHANGED <<conds, sched, original_priority, donators, waiting_lock, arg, locks, timer, panic, calls>>

\* A lock_release that leaves lock->holder as it is.
LrClear_keep(t) ==
  /\ Runs(t, "lr_clear")
  /\ pc' = [pc EXCEPT ![t] = "lr_up"]
  /\ UNCHANGED <<conds, sched, donation, arg, locks, timer, panic, calls>>

\* synch.c:533: lock->holder = NULL.
LrClear(t) ==
  /\ Runs(t, "lr_clear")
  /\ holder' = [holder EXCEPT ![arg[t]] = NULL]
  /\ pc' = [pc EXCEPT ![t] = "lr_up"]
  /\ UNCHANGED <<conds, sched, donation, arg, value, waiters, arrivals, timer, panic, calls>>

\* synch.c:534: sema_up(&lock->semaphore); the caller may yield inside it.
\* lock_release then returns to the thread's own code or, called by
\* cond_wait (synch.c:758), to cond_wait's sema_down.
LrUp(t) ==
  /\ Runs(t, "lr_up")
  /\ sema_up(arg[t])
  /\ pc' = [pc EXCEPT ![t] = IF cond_arg[t] # NULL THEN "cw_down" ELSE "user"]
  /\ arg' = [arg EXCEPT ![t] = IF cond_arg[t] # NULL THEN @ ELSE NULL]
  /\ UNCHANGED <<conds, donation, holder, timer, panic, calls>>

\* ---------------------------------------------------- thread_set_priority
\* thread.c:420: original_priority = new_priority.
ThreadSetPriority(t, p) ==
  /\ Call(t)
  /\ original_priority' = [original_priority EXCEPT ![t] = p]
  /\ pc' = [pc EXCEPT ![t] = "sp_base"]
  /\ UNCHANGED <<conds, sched, priority, donators, waiting_lock, arg, locks, timer, panic>>

\* thread.c:428-430: the preemption check, interrupts off.
SpPreempt(t) ==
  /\ Runs(t, "sp_preempt")
  /\ preemption_by_priority(status, ready_list, priority)
  /\ pc' = [pc EXCEPT ![t] = "user"]
  /\ UNCHANGED <<conds, donation, arg, locks, timer, panic, calls>>

\* thread.c:434-437: thread_get_priority() called by t.
thread_get_priority(t) == priority[t]

\* ---------------------------------------------------------- thread_create
\* thread.c:212-240: init_thread(c, name, p) and thread_unblock(c); arg[t]
\* is thread_create's local t, the new thread.
ThreadCreate(t, c, p) ==
  /\ Call(t)
  /\ status[c] = "NEW"
  /\ c = Min({x \in AllThreads : status[x] = "NEW"})
  /\ priority' = [priority EXCEPT ![c] = p]
  /\ original_priority' = [original_priority EXCEPT ![c] = p]
  /\ status' = [status EXCEPT ![c] = "READY"]
  /\ ready_list' = thread_unblock(ready_list, c, [priority EXCEPT ![c] = p])
  /\ pc' = [pc EXCEPT ![t] = "tc_preempt"]
  /\ arg' = [arg EXCEPT ![t] = c]
  /\ UNCHANGED <<conds, running, thread_ticks, destruction_req, donators, waiting_lock,
                 locks, timer, panic>>

\* thread.c:244-246: the preemption check, interrupts off.
TcPreempt(t) ==
  /\ Runs(t, "tc_preempt")
  /\ preemption_by_priority(status, ready_list, priority)
  /\ pc' = [pc EXCEPT ![t] = "user"]
  /\ arg' = [arg EXCEPT ![t] = NULL]
  /\ UNCHANGED <<conds, donation, locks, timer, panic, calls>>

\* ----------------------------------------------------------- thread_yield
ThreadYield(t) ==
  /\ Call(t)
  /\ thread_yield(status, ready_list, priority)
  /\ UNCHANGED <<conds, pc, donation, arg, locks, timer, panic>>

\* ------------------------------------------------------------ thread_exit
\* thread.c:324-337: intr_disable(); do_schedule(THREAD_DYING).
ThreadExit(t) ==
  /\ Call(t)
  /\ do_schedule(status, ready_list, "DYING")
  /\ pc' = [pc EXCEPT ![t] = "exited"]
  /\ UNCHANGED <<conds, donation, arg, locks, timer, panic>>

\* ------------------------------------------------------------ timer_sleep
\* The key of arrivals under which a run records the callers of timer_sleep.
SleepLog == 99

\* History: t has called timer_sleep.
sleep_called(arr, t) ==
  IF SleepLog \in DOMAIN arr THEN [arr EXCEPT ![SleepLog] = Append(@, t)] ELSE arr

\* History: the threads of woken have been taken off the sleep list.
sleep_woken(arr, woken) ==
  IF SleepLog \in DOMAIN arr
  THEN [arr EXCEPT ![SleepLog] = SelectSeq(@, LAMBDA x : x \notin Elems(woken))]
  ELSE arr

\* timer.c:255-258: wakeup_tick = timer_ticks() + ticks.
TimerSleep(t, n) ==
  /\ Call(t)
  /\ wakeup_tick' = [wakeup_tick EXCEPT ![t] = ticks + n]
  /\ pc' = [pc EXCEPT ![t] = "ts_block"]
  /\ arrivals' = sleep_called(arrivals, t)
  /\ UNCHANGED <<conds, sched, donation, arg, holder, value, waiters, sleep_list,
                 ticks, panic>>

\* timer.c:260-263: queue on the sleep list by wakeup_tick and block.  The
\* thread continues after timer_sleep when it is dispatched again.
TsBlock(t) ==
  /\ Runs(t, "ts_block")
  /\ sleep_list' = list_insert_ordered(sleep_list, t,
                      [a, b \in AllThreads |-> compare_tick(wakeup_tick, a, b)])
  /\ thread_block(status, ready_list)
  /\ pc' = [pc EXCEPT ![t] = "user"]
  /\ UNCHANGED <<conds, donation, arg, locks, wakeup_tick, ticks, panic, calls>>

\* -------------------------------------------------------- timer_interrupt
\* A drain that takes the front sleeper whatever its wakeup_tick.
Expired_front(sl, now) == IF sl # <<>> THEN <<Head(sl)>> ELSE <<>>

\* The sleepers at the front of the list whose wakeup_tick has come.
RECURSIVE Expired(_, _)
Expired(sl, now) ==
  IF sl # <<>> /\ wakeup_tick[Head(sl)] <= now
  THEN <<Head(sl)>> \o Expired(Tail(sl), now)
  ELSE <<>>

RECURSIVE UnblockAll(_, _, _)
UnblockAll(rl, woken, prio) ==
  IF woken = <<>> THEN rl
  ELSE UnblockAll(thread_unblock(rl, Head(woken), prio), Tail(woken), prio)

\* A timer interrupt whose thread_tick never asks for a yield.
Tick_no_yield(limit) ==
  /\ ~panic /\ IntrOn /\ ticks < limit
  /\ ticks' = ticks + 1
  /\ LET woken == Expired(sleep_list, ticks + 1)
     IN /\ sleep_list' = SubSeq(sleep_list, Len(woken) + 1, Len(sleep_list))
        /\ status' = [t \in AllThreads |->
                        IF \E i \in 1..Len(woken) : woken[i] = t
                        THEN "READY" ELSE status[t]]
        /\ ready_list' = UnblockAll(ready_list, woken, priority)
        /\ thread_ticks' = thread_ticks + 1
        /\ UNCHANGED <<running, destruction_req>>
  /\ pc' = [pc EXCEPT ![idle_thread] = "idle_loop"]
  /\ arrivals' = sleep_woken(arrivals, Expired(sleep_list, ticks + 1))
  /\ UNCHANGED <<conds, donation, arg, holder, value, waiters, wakeup_tick, panic,
                 calls>>

\* timer.c:326-342 with thread_tick (thread.c:159-176) and the yield on
\* return from the interrupt.
Tick(limit) ==
  /\ ~panic /\ IntrOn /\ ticks < limit
  /\ ticks' = ticks + 1
  /\ LET woken == Expired(sleep_list, ticks + 1)
         st == [t \in AllThreads |->
                  IF \E i \in 1..Len(woken) : woken[i] = t THEN "READY" ELSE status[t]]
         rl == UnblockAll(ready_list, woken, priority)
     IN /\ sleep_list' = SubSeq(sleep_list, Len(woken) + 1, Len(sleep_list))
        /\ IF thread_ticks + 1 >= TIME_SLICE
           THEN thread_yield(st, rl, priority)
           ELSE /\ status' = st
                /\ ready_list' = rl
                /\ thread_ticks' = thread_ticks + 1
                /\ UNCHANGED <<running, destruction_req>>
  /\ pc' = [pc EXCEPT ![idle_thread] = "idle_loop"]
  /\ arrivals' = sleep_woken(arrivals, Expired(sleep_list, ticks + 1))
  /\ UNCHANGED <<conds, donation, arg, holder, value, waiters, wakeup_tick, panic,
                 calls>>

timer_interrupt == Tick(MaxTicks)

\* ------------------------------------------------- semaphores of a device
\* sema_down(s) on a semaphore of no lock, called by thread t.
SemaDown(t, s) ==
  /\ Call(t)
  /\ sema_down_at(t, s, "sd_blocked", "user")
  /\ arg' = [arg EXCEPT ![t] = s]
  /\ UNCHANGED <<conds, donation, holder, timer, panic>>

\* synch.c:80-92: the waiter, dispatched again, re-tests the value.
SemaDownWake(t) ==
  /\ Runs(t, "sd_blocked")
  /\ sema_down_at(t, arg[t], "sd_blocked", "user")
  /\ UNCHANGED <<conds, donation, arg, holder, timer, panic, calls>>

\* sema_up(s) called by the handler of an external interrupt that arrives
\* while `running' executes with interrupts on.  synch.c:158-168 wake the
\* front waiter and increment; preemption_by_priority (thread.c:383-388)
\* then calls thread_yield when the front of the ready list outranks the
\* interrupted thread, and thread_yield's ASSERT(!intr_context())
\* (thread.c:347) fails: the kernel panics.
IsrSemaUp(s) ==
  /\ ~panic /\ IntrOn /\ value[s] < MaxValue
  /\ LET w == list_sort(waiters[s], [a, b \in AllThreads |-> compare_ready_priority(priority, a, b)])
         woke == waiters[s] # <<>>
         st == IF woke THEN [status EXCEPT ![Head(w)] = "READY"] ELSE status
         rl == IF woke THEN thread_unblock(ready_list, Head(w), priority) ELSE ready_list
     IN /\ waiters' = [waiters EXCEPT ![s] = IF woke THEN Tail(w) ELSE @]
        /\ arrivals' = [arrivals EXCEPT ![s] =
                          IF woke THEN SelectSeq(@, LAMBDA x : x # Head(w)) ELSE @]
        /\ value' = [value EXCEPT ![s] = @ + 1]
        /\ status' = st
        /\ ready_list' = rl
        /\ panic' = (rl # <<>> /\ priority[running] < priority[Head(rl)])
  /\ UNCHANGED <<conds, running, thread_ticks, destruction_req, pc, donation, arg,
                 holder, timer, calls>>

\* ---------------------------------------------------- condition variables
\* The conditions of the run.
AllConds == DOMAIN cond_waiters

\* The semaphore of the semaphore_elem `waiter' that cond_wait keeps on t's
\* stack (synch.c:742); each thread has at most one at a time.
SlotBase == 100
Slot(t) == SlotBase + t

\* What compare_ready_priority can read when compare_sema_priority hands it
\* list_begin() of an empty waiters list, which is the list's tail sentinel
\* and no thread's elem: it reads the int that lies where a thread's priority
\* field would be, below or above every thread's priority.
Garbage == {PRI_MIN, PRI_MAX}

\* synch.c:196-205: the priority compare_sema_priority reads for t's
\* semaphore_elem, g[t] standing for the int read beside an empty list.
SlotPriority(g, t) ==
  IF waiters[Slot(t)] # <<>> THEN priority[Head(waiters[Slot(t)])] ELSE g[t]

compare_sema_priority(g, a, b) == SlotPriority(g, a) > SlotPriority(g, b)

\* synch.c:741-755: the assertions, sema_init(&waiter.semaphore, 0) and
\* list_insert_ordered(&cond->waiters, &waiter.elem, compare_sema_priority).
CondWait(t, cv, l) ==
  /\ Call(t)
  /\ lock_held_by_current_thread(t, l)
  /\ value' = [value EXCEPT ![Slot(t)] = 0]
  /\ waiters' = [waiters EXCEPT ![Slot(t)] = <<>>]
  /\ arrivals' = [arrivals EXCEPT ![Slot(t)] = <<>>]
  /\ \E g \in [AllThreads -> Garbage] :
       cond_waiters' = [cond_waiters EXCEPT ![cv] =
         list_insert_ordered(@, t,
           [a, b \in AllThreads |-> compare_sema_priority(g, a, b)])]
  /\ cond_arg' = [cond_arg EXCEPT ![t] = cv]
  /\ arg' = [arg EXCEPT ![t] = l]
  /\ pc' = [pc EXCEPT ![t] = "cw_release"]
  /\ UNCHANGED <<sched, donation, holder, timer, panic>>

\* synch.c:758: lock_release(lock), up to its remove_donations
\* (synch.c:523-527).
CwRelease(t) ==
  /\ Runs(t, "cw_release")
  /\ donators' = [donators EXCEPT ![t] = remove_donations(t, arg[t])]
  /\ pc' = [pc EXCEPT ![t] = "lr_base"]
  /\ UNCHANGED <<conds, sched, priority, original_priority, waiting_lock, arg,
                 locks, timer, panic, calls>>

\* synch.c:761: sema_down(&waiter.semaphore).
CwDown(t) ==
  /\ Runs(t, "cw_down")
  /\ sema_down_at(t, Slot(t), "cw_blocked", "cw_acquire")
  /\ UNCHANGED <<conds, donation, arg, holder, timer, panic, calls>>

\* synch.c:80-92: the waiter, dispatched again, re-tests the value.
CwResume(t) ==
  /\ Runs(t, "cw_blocked")
  /\ sema_down_at(t, Slot(t), "cw_blocked", "cw_acquire")
  /\ UNCHANGED <<conds, donation, arg, holder, timer, panic, calls>>

\* synch.c:764: lock_acquire(lock), up to its test of lock->holder
\* (synch.c:342-349).
CwAcquire(t) ==
  /\ Runs(t, "cw_acquire")
  /\ pc' = [pc EXCEPT ![t] = IF holder[arg[t]] # NULL THEN "la_wait" ELSE "la_down"]
  /\ UNCHANGED <<conds, sched, donation, arg, locks, timer, panic, calls>>

\* A cond_signal that pops the front element and ups no semaphore.
cond_signal_lost(cv) ==
  IF cond_waiters[cv] = <<>>
  THEN UNCHANGED <<cond_waiters, value, waiters, arrivals, sched>>
  ELSE /\ cond_waiters' = [cond_waiters EXCEPT ![cv] = Tail(@)]
       /\ UNCHANGED <<value, waiters, arrivals, sched>>

\* synch.c:818-829: when the condition has waiters, list_sort by
\* compare_sema_priority, list_pop_front and sema_up of that semaphore.
cond_signal(cv) ==
  IF cond_waiters[cv] = <<>>
  THEN UNCHANGED <<cond_waiters, value, waiters, arrivals, sched>>
  ELSE \E g \in [AllThreads -> Garbage] :
         LET w == list_sort(cond_waiters[cv],
                    [a, b \in AllThreads |-> compare_sema_priority(g, a, b)])
         IN /\ cond_waiters' = [cond_waiters EXCEPT ![cv] = Tail(w)]
            /\ sema_up(Slot(Head(w)))

\* synch.c:810-830: cond_signal(cond, lock) by the holder of lock.
CondSignal(t, cv, l) ==
  /\ Call(t)
  /\ holder[l] = t
  /\ cond_signal(cv)
  /\ UNCHANGED <<pc, arg, cond_arg, donation, holder, timer, panic>>

\* cond_broadcast(cond, lock): the assertions; the loop follows.
CondBroadcast(t, cv, l) ==
  /\ Call(t)
  /\ holder[l] = t
  /\ cond_arg' = [cond_arg EXCEPT ![t] = cv]
  /\ pc' = [pc EXCEPT ![t] = "cb_loop"]
  /\ UNCHANGED <<cond_waiters, sched, donation, arg, locks, timer, panic>>

\* while (!list_empty(&cond->waiters)) cond_signal(cond, lock): one turn.
CbLoop(t) ==
  /\ Runs(t, "cb_loop")
  /\ IF cond_waiters[cond_arg[t]] = <<>>
     THEN /\ pc' = [pc EXCEPT ![t] = "user"]
          /\ cond_arg' = [cond_arg EXCEPT ![t] = NULL]
          /\ UNCHANGED <<cond_waiters, value, waiters, arrivals, sched>>
     ELSE /\ cond_signal(cond_arg[t])
          /\ UNCHANGED <<pc, cond_arg>>
  /\ UNCHANGED <<arg, donation, holder, timer, panic, calls>>

\* ------------------------------------------------------------------- idle
\* thread.c:488-507: intr_disable(); thread_block(); then sti; hlt when the
\* idle thread is chosen again.
IdleBlock ==
  /\ Runs(idle_thread, "idle_loop")
  /\ thread_block(status, ready_list)
  /\ pc' = [pc EXCEPT ![idle_thread] = "idle_hlt"]
  /\ UNCHANGED <<conds, donation, arg, locks, timer, panic, calls>>

\* ------------------------------------------------------------------- Next
Next ==
  \/ \E t \in AllThreads, l \in AllLocks : LockAcquire(t, l)
  \/ \E t \in AllThreads : LaWait(t)
  \/ \E t \in AllThreads : LaInsert(t)
  \/ \E t \in AllThreads : LaDonate(t)
  \/ \E t \in AllThreads : LaDown(t)
  \/ \E t \in AllThreads : SemaDownResume(t)
  \/ \E t \in AllThreads : LaHold(t)
  \/ \E t \in AllThreads : LaClear(t)
  \/ \E t \in AllThreads, l \in AllLocks : LockTryAcquire(t, l)
  \/ \E t \in AllThreads : TaHold(t)
  \/ \E t \in AllThreads, l \in AllLocks : LockRelease(t, l)
  \/ \E t \in AllThreads : RecalcBase(t)
  \/ \E t \in AllThreads : RecalcDonor(t)
  \/ \E t \in AllThreads : LrClear(t)
  \/ \E t \in AllThreads : LrUp(t)
  \/ \E t \in AllThreads, p \in Prios : ThreadSetPriority(t, p)
  \/ \E t \in AllThreads : SpPreempt(t)
  \/ \E t, c \in AllThreads, p \in Prios : ThreadCreate(t, c, p)
  \/ \E t \in AllThreads : TcPreempt(t)
  \/ \E t \in AllThreads : ThreadYield(t)
  \/ \E t \in AllThreads : ThreadExit(t)
  \/ \E t \in AllThreads, n \in 1..MaxSleep : TimerSleep(t, n)
  \/ \E t \in AllThreads : TsBlock(t)
  \/ timer_interrupt
  \/ IdleBlock

Spec == Init /\ [][Next]_vars


\* ----------------------------------------------------------- SpecDonation
\* The runs in which no timer interrupt arrives and the threads only take
\* and release locks and create threads, each new thread one priority level
\* above the one created before it.
InitDonation == Boot(0..DonationThreads, 1..DonationLocks, DonationCalls)

NextDonation ==
  \/ \E t \in AllThreads, l \in AllLocks : LockAcquire(t, l)
  \/ \E t \in AllThreads : LaWait(t)
  \/ \E t \in AllThreads : LaInsert(t)
  \/ \E t \in AllThreads : LaDonate(t)
  \/ \E t \in AllThreads : LaDown(t)
  \/ \E t \in AllThreads : SemaDownResume(t)
  \/ \E t \in AllThreads : LaHold(t)
  \/ \E t \in AllThreads : LaClear(t)
  \/ \E t \in AllThreads, l \in AllLocks : LockRelease(t, l)
  \/ \E t \in AllThreads : RecalcBase(t)
  \/ \E t \in AllThreads : RecalcDonor(t)
  \/ \E t \in AllThreads : LrClear(t)
  \/ \E t \in AllThreads : LrUp(t)
  \/ \E t, c \in AllThreads : ThreadCreate(t, c, PRI_DEFAULT + c - 1)
  \/ \E t \in AllThreads : TcPreempt(t)
  \/ IdleBlock

SpecDonation == InitDonation /\ [][NextDonation]_vars

\* -------------------------------------------------------------- SpecChain
\* The runs that start from a chain of MaxChain holders: thread k holds lock
\* k and, but for thread 1, is parked in lock_acquire of lock k - 1; thread 1
\* is READY.  The first m holders have base priority PRI_DEFAULT + 1, the
\* others PRI_DEFAULT.  Thread MaxChain + 1, of priority p, runs and takes
\* one lock: lock l starts a chain of l holders.
ChainThreads == 0..(MaxChain + 1)
ChainLocks == 1..MaxChain

InitChain ==
  \E m \in 0..MaxChain, p \in Prios :
    LET base == [t \in ChainThreads |->
                   IF t = idle_thread THEN PRI_MIN
                   ELSE IF t = MaxChain + 1 THEN p
                   ELSE IF t <= m THEN PRI_DEFAULT + 1 ELSE PRI_DEFAULT]
    IN
    /\ status = [t \in ChainThreads |->
                   IF t = MaxChain + 1 THEN "RUNNING"
                   ELSE IF t \in {idle_thread, 1} THEN "READY" ELSE "BLOCKED"]
    /\ priority = base
    /\ original_priority = base
    /\ donators = [t \in ChainThreads |->
                     IF t \in 1..(MaxChain - 1) THEN <<t + 1>> ELSE <<>>]
    /\ waiting_lock = [t \in ChainThreads |->
                         IF t \in 2..MaxChain THEN t - 1 ELSE NULL]
    /\ wakeup_tick = [t \in ChainThreads |-> 0]
    /\ pc = [t \in ChainThreads |->
               IF t = idle_thread THEN "idle_hlt"
               ELSE IF t \in 2..MaxChain THEN "la_blocked" ELSE "user"]
    /\ arg = [t \in ChainThreads |-> IF t \in 2..MaxChain THEN t - 1 ELSE NULL]
    /\ holder = [l \in ChainLocks |-> l]
    /\ value = [l \in ChainLocks |-> 0]
    /\ waiters = [l \in ChainLocks |-> IF l < MaxChain THEN <<l + 1>> ELSE <<>>]
    /\ arrivals = [l \in ChainLocks |-> IF l < MaxChain THEN <<l + 1>> ELSE <<>>]
    /\ cond_waiters = <<>>
    /\ cond_arg = [t \in ChainThreads |-> NULL]
    /\ ready_list = <<1>>
    /\ destruction_req = <<>>
    /\ sleep_list = <<>>
    /\ ticks = 0
    /\ thread_ticks = 0
    /\ running = MaxChain + 1
    /\ panic = FALSE
    /\ calls = 1

NextChain ==
  \/ \E t \in AllThreads, l \in AllLocks : LockAcquire(t, l)
  \/ \E t \in AllThreads : LaWait(t)
  \/ \E t \in AllThreads : LaInsert(t)
  \/ \E t \in AllThreads : LaDonate(t)
  \/ \E t \in AllThreads : LaDown(t)

SpecChain == InitChain /\ [][NextChain]_vars


\* ------------------------------------------------------- SpecSetPriority
\* SpecDonation's runs on fewer locks, in which a thread may also set its
\* base priority to PRI_DEFAULT or to PRI_DEFAULT + 2.
InitSetPriority ==
  Boot(0..SetPriorityThreads, 1..SetPriorityLocks, SetPriorityCalls)

NextSetPriority ==
  \/ NextDonation
  \/ \E t \in AllThreads, p \in {PRI_DEFAULT, PRI_DEFAULT + 2} :
       ThreadSetPriority(t, p)
  \/ \E t \in AllThreads : SpPreempt(t)

SpecSetPriority == InitSetPriority /\ [][NextSetPriority]_vars

\* ---------------------------------------------------------------- SpecWake
\* SpecDonation's runs on fewer locks, in which any thread may also be
\* created at PRI_DEFAULT + 2, so that threads of equal priority meet on a
\* semaphore.
InitWake == Boot(0..WakeThreads, 1..WakeLocks, WakeCalls)

NextWake ==
  \/ NextDonation
  \/ \E t, c \in AllThreads : ThreadCreate(t, c, PRI_DEFAULT + 2)

SpecWake == InitWake /\ [][NextWake]_vars

\* --------------------------------------------------------------- SpecSleep
\* The runs without locks in which threads are created, each one priority
\* level above the one before, and sleep for SleepArgs ticks
\* while the timer interrupt arrives up to SleepTicks times.
SleepArgs == (0 - MaxNegativeSleepArg)..MaxSleepArg

InitSleep == Boot(0..SleepThreads, {}, SleepCalls)

NextSleep ==
  \/ \E t \in AllThreads, n \in SleepArgs : TimerSleep(t, n)
  \/ \E t \in AllThreads : TsBlock(t)
  \/ Tick(SleepTicks)
  \/ \E t, c \in AllThreads : ThreadCreate(t, c, PRI_DEFAULT + c - 1)
  \/ \E t \in AllThreads : TcPreempt(t)
  \/ IdleBlock

SpecSleep == InitSleep /\ [][NextSleep]_vars

\* ---------------------------------------------------------- SpecSleepOrder
\* SpecSleep's runs with the record of the order of the timer_sleep calls.
InitSleepOrder == BootWith(0..SleepThreads, {}, {SleepLog}, SleepCalls)

SpecSleepOrder == InitSleepOrder /\ [][NextSleep]_vars

\* ----------------------------------------------------------------- SpecIsr
\* The runs without locks in which threads are created, each one priority
\* level above the one before, and wait on IsrSemas semaphores that only an
\* interrupt handler ups.
InitIsr == BootWith(0..IsrThreads, {}, 1..IsrSemas, IsrCalls)

NextIsr ==
  \/ \E t \in AllThreads, s \in AllSemas : SemaDown(t, s)
  \/ \E t \in AllThreads : SemaDownWake(t)
  \/ \E s \in AllSemas : IsrSemaUp(s)
  \/ \E t, c \in AllThreads : ThreadCreate(t, c, PRI_DEFAULT + c - 1)
  \/ \E t \in AllThreads : TcPreempt(t)
  \/ IdleBlock

SpecIsr == InitIsr /\ [][NextIsr]_vars

\* ---------------------------------------------------------------- SpecFifo
\* SpecDonation's runs on two locks, in which a thread may also yield and
\* a thread may be created at any priority PRI_DEFAULT + 1 .. PRI_DEFAULT +
\* FifoLevels.
InitFifo == Boot(0..FifoThreads, 1..FifoLocks, FifoCalls)

NextFifo ==
  \/ NextDonation
  \/ \E t, c \in AllThreads, k \in 1..FifoLevels :
       ThreadCreate(t, c, PRI_DEFAULT + k)
  \/ \E t \in AllThreads : ThreadYield(t)

SpecFifo == InitFifo /\ [][NextFifo]_vars

\* ---------------------------------------------------------------- SpecCond
\* SpecDonation's runs on one lock, in which the holder of the lock may
\* also wait on, signal and broadcast one condition variable.
InitCond ==
  BootAll(0..CondThreads, {1}, {Slot(t) : t \in 0..CondThreads}, {1}, CondCalls)

NextCond ==
  \/ NextDonation
  \/ \E t \in AllThreads, cv \in AllConds, l \in AllLocks : CondWait(t, cv, l)
  \/ \E t \in AllThreads : CwRelease(t)
  \/ \E t \in AllThreads : CwDown(t)
  \/ \E t \in AllThreads : CwResume(t)
  \/ \E t \in AllThreads : CwAcquire(t)
  \/ \E t \in AllThreads, cv \in AllConds, l \in AllLocks : CondSignal(t, cv, l)
  \/ \E t \in AllThreads, cv \in AllConds, l \in AllLocks : CondBroadcast(t, cv, l)
  \/ \E t \in AllThreads : CbLoop(t)

SpecCond == InitCond /\ [][NextCond]_vars

\* ------------------------------------------------------------ SpecContract
\* A failed ASSERT: the kernel panics where it stands.
Halt ==
  /\ panic' = TRUE
  /\ UNCHANGED <<conds, sched, donation, pc, arg, locks, timer>>

\* synch.c:344: lock_acquire(l) by a thread that holds l.
LockAcquireHeld(t, l) ==
  /\ Call(t)
  /\ lock_held_by_current_thread(t, l)
  /\ Halt

\* synch.c:477: lock_try_acquire(l) by a thread that holds l.
LockTryAcquireHeld(t, l) ==
  /\ Call(t)
  /\ lock_held_by_current_thread(t, l)
  /\ Halt

\* synch.c:524: lock_release(l) by a thread that does not hold l.
LockReleaseNotHeld(t, l) ==
  /\ Call(t)
  /\ ~lock_held_by_current_thread(t, l)
  /\ Halt

\* intr_context(), in code that an interrupt handler runs (handler TRUE) or
\* a thread (FALSE).
intr_context(handler) == handler

\* An external interrupt handler, taken while the running thread has
\* interrupts enabled, calls a function whose first statements are
\* ASSERT(!intr_context()) and then body.
HandlerCalls(body) ==
  /\ ~panic /\ IntrOn
  /\ IF intr_context(TRUE)
     THEN Halt /\ UNCHANGED calls
     ELSE body

\* synch.c:74: sema_down(s) called by a handler.
IsrSemaDown(s) ==
  HandlerCalls(/\ sema_down_at(running, s, "sd_blocked", pc[running])
           /\ UNCHANGED <<conds, donation, arg, holder, timer, panic, calls>>)

\* synch.c:343: lock_acquire(l) called by a handler.
IsrLockAcquire(l) ==
  HandlerCalls(/\ pc' = [pc EXCEPT ![running] =
                      IF holder[l] # NULL THEN "la_wait" ELSE "la_down"]
           /\ arg' = [arg EXCEPT ![running] = l]
           /\ UNCHANGED <<conds, sched, donation, locks, timer, panic, calls>>)

\* synch.c:747: cond_wait(cv, l) called by a handler.
IsrCondWait(cv, l) ==
  HandlerCalls(/\ cond_waiters' = [cond_waiters EXCEPT ![cv] = Append(@, running)]
           /\ pc' = [pc EXCEPT ![running] = "cw_release"]
           /\ arg' = [arg EXCEPT ![running] = l]
           /\ cond_arg' = [cond_arg EXCEPT ![running] = cv]
           /\ UNCHANGED <<sched, donation, locks, timer, panic, calls>>)

\* thread.c:347: thread_yield() called by a handler.
IsrThreadYield ==
  HandlerCalls(/\ thread_yield(status, ready_list, priority)
           /\ UNCHANGED <<conds, donation, pc, arg, locks, timer, panic, calls>>)

\* thread.c:259: thread_block() called by a handler.
IsrThreadBlock ==
  HandlerCalls(/\ thread_block(status, ready_list)
           /\ UNCHANGED <<conds, donation, pc, arg, locks, timer, panic, calls>>)

InitContract ==
  BootAll(0..ContractThreads, {1}, {Slot(t) : t \in 0..ContractThreads}, {1},
          ContractCalls)

NextContract ==
  \/ NextCond
  \/ \E t \in AllThreads, l \in AllLocks : LockTryAcquire(t, l)
  \/ \E t \in AllThreads : TaHold(t)
  \/ \E t \in AllThreads, l \in AllLocks : LockAcquireHeld(t, l)
  \/ \E t \in AllThreads, l \in AllLocks : LockTryAcquireHeld(t, l)
  \/ \E t \in AllThreads, l \in AllLocks : LockReleaseNotHeld(t, l)
  \/ \E s \in DOMAIN value : IsrSemaDown(s)
  \/ \E l \in AllLocks : IsrLockAcquire(l)
  \/ \E cv \in AllConds, l \in AllLocks : IsrCondWait(cv, l)
  \/ IsrThreadYield
  \/ IsrThreadBlock

SpecContract == InitContract /\ [][NextContract]_vars

\* ------------------------------------------------------------- SpecUnblock
\* thread.c:257-263: thread_block() called by t from its own code, with
\* interrupts disabled.  The thread continues in its own code when it is
\* dispatched again.
ThreadBlock(t) ==
  /\ Call(t)
  /\ thread_block(status, ready_list)
  /\ UNCHANGED <<conds, pc, donation, arg, locks, timer, panic>>

\* x is BLOCKED and waits on no semaphore and on no sleep list: it has
\* called thread_block itself.
BlockedByItself(x) ==
  /\ status[x] = "BLOCKED"
  /\ \A l \in DOMAIN waiters : x \notin Elems(waiters[l])
  /\ x \notin Elems(sleep_list)

\* thread.c:274-288: thread_unblock(x) called by t on a thread that exists
\* and is on no waiters list.  The assertion at thread.c:283 halts the
\* kernel when x is not BLOCKED.
ThreadUnblock(t, x) ==
  /\ Call(t)
  /\ status[x] \notin {"NEW", "FREED"}
  /\ status[x] = "BLOCKED" => BlockedByItself(x)
  /\ IF status[x] = "BLOCKED"
     THEN /\ status' = [status EXCEPT ![x] = "READY"]
          /\ ready_list' = thread_unblock(ready_list, x, priority)
          /\ UNCHANGED panic
     ELSE /\ panic' = TRUE
          /\ UNCHANGED <<status, ready_list>>
  /\ UNCHANGED <<conds, pc, running, thread_ticks, destruction_req, donation, arg,
                 locks, timer>>

InitUnblock == Boot(0..UnblockThreads, 1..UnblockLocks, UnblockCalls)

NextUnblock ==
  \/ NextFifo
  \/ \E t \in AllThreads : ThreadBlock(t)
  \/ \E t, x \in AllThreads : ThreadUnblock(t, x)

SpecUnblock == InitUnblock /\ [][NextUnblock]_vars

\* ---------------------------------------------------------------- SpecLive
\* Every thread is a finite program: it creates threads and takes locks in
\* increasing order of address (so that no cycle of waiting threads can
\* form), releases them, and when it has no call left releases every lock
\* it still holds and exits.
InitLive == Boot(0..LiveThreads, 1..LiveLocks, LiveCalls)

\* lock_acquire(l) by a thread that holds no lock at or above l.
LiveAcquire(t, l) ==
  /\ \A k \in AllLocks : holder[k] = t => k < l
  /\ LockAcquire(t, l)

\* The end of t's thread function: lock_release of a lock it holds, or
\* thread_exit when it holds none.
Unwind(t) ==
  /\ Runs(t, "user") /\ t # idle_thread
  /\ calls = 0
  /\ IF \E l \in AllLocks : holder[l] = t
     THEN \E l \in AllLocks :
            /\ holder[l] = t
            /\ donators' = [donators EXCEPT ![t] = remove_donations(t, l)]
            /\ pc' = [pc EXCEPT ![t] = "lr_base"]
            /\ arg' = [arg EXCEPT ![t] = l]
            /\ UNCHANGED sched
     ELSE /\ do_schedule(status, ready_list, "DYING")
          /\ pc' = [pc EXCEPT ![t] = "exited"]
          /\ UNCHANGED <<donators, arg>>
  /\ UNCHANGED <<conds, priority, original_priority, waiting_lock, locks, timer,
                 panic, calls>>

\* The steps of the running thread.
RunningSteps ==
  \/ \E t \in AllThreads, l \in AllLocks : LiveAcquire(t, l)
  \/ \E t \in AllThreads : LaWait(t)
  \/ \E t \in AllThreads : LaInsert(t)
  \/ \E t \in AllThreads : LaDonate(t)
  \/ \E t \in AllThreads : LaDown(t)
  \/ \E t \in AllThreads : SemaDownResume(t)
  \/ \E t \in AllThreads : LaHold(t)
  \/ \E t \in AllThreads : LaClear(t)
  \/ \E t \in AllThreads, l \in AllLocks : LockRelease(t, l)
  \/ \E t \in AllThreads : RecalcBase(t)
  \/ \E t \in AllThreads : RecalcDonor(t)
  \/ \E t \in AllThreads : LrClear(t)
  \/ \E t \in AllThreads : LrUp(t)
  \/ \E t, c \in AllThreads, p \in Prios : ThreadCreate(t, c, p)
  \/ \E t \in AllThreads : TcPreempt(t)
  \/ \E t \in AllThreads : Unwind(t)
  \/ IdleBlock

NextLive == RunningSteps \/ Tick(LiveTicks)

SpecLive ==
  /\ InitLive /\ [][NextLive]_vars
  /\ WF_vars(RunningSteps) /\ WF_vars(Tick(LiveTicks))

\* ------------------------------------------------------- shared vocabulary

\* No thread is between two statements of lock_acquire's donation
\* (synch.c:351-357), of lock_release's removal and recomputation
\* (synch.c:527-533) or of thread_set_priority's (thread.c:420-424).
Settled ==
  \A t \in AllThreads :
    pc[t] \notin {"la_insert", "la_donate", "lr_base", "lr_donor", "lr_clear",
                  "sp_base", "sp_donor"}

\* t is parked inside lock_acquire(l).
ParkedOn(t, l) == status[t] = "BLOCKED" /\ pc[t] = "la_blocked" /\ arg[t] = l

SortedByPriority(list) ==
  \A i, j \in 1..Len(list) : i < j => priority[list[i]] >= priority[list[j]]

\* ---------------------------------------------------------------------- C1
\* t has passed lock l's semaphore and has not yet upped it.
HasLock(t, l) ==
  \/ holder[l] = t
  \/ arg[t] = l /\ pc[t] \in {"la_hold", "la_clear", "ta_hold", "lr_up"}

\* C1: mutual exclusion.  Under every interleaving of threads and timer
\* interrupts no two threads have the same lock at once, and whoever has it
\* has taken the semaphore's only unit.
C1_MutualExclusion ==
  \A l \in AllLocks :
    /\ \A t1, t2 \in AllThreads : HasLock(t1, l) /\ HasLock(t2, l) => t1 = t2
    /\ (\E t \in AllThreads : HasLock(t, l)) => value[l] = 0

\* A lock is held while another thread that tried to take it is parked, a
\* timer interrupt having been served.
C1_Witness ==
  \E l \in AllLocks, t1, t2 \in AllThreads :
    /\ t1 # t2 /\ holder[l] = t1 /\ pc[t1] = "user"
    /\ ParkedOn(t2, l)
    /\ ticks > 0

\* ---------------------------------------------------------------------- C2
\* C2: whenever no thread is inside a donation or a recomputation, every
\* thread's priority is the maximum of its base priority and its donors'
\* priorities.
C2_PriorityIsMaxOfDonors ==
  Settled =>
    \A t \in AllThreads :
      status[t] # "NEW" =>
        priority[t] = Max({original_priority[t]}
                          \cup {priority[d] : d \in Elems(donators[t])})

\* ---------------------------------------------------------------------- C3
\* The running thread does not rank below a thread parked on a lock whose
\* holder is READY.
NoInversion ==
  \A l \in AllLocks, h \in AllThreads :
    (holder[l] # NULL /\ status[holder[l]] = "READY" /\ ParkedOn(h, l))
      => priority[running] >= priority[h]

\* C3: at every dispatch, no thread that ranks below a thread H parked on a
\* lock is chosen while the lock's holder is READY.
C3_NoPriorityInversion == [][running' # running => NoInversion']_vars

\* ---------------------------------------------------------------------- C4
\* C4: the ready queue and every semaphore's waiters are in non-increasing
\* order of effective priority.
C4_QueuesSorted ==
  /\ SortedByPriority(ready_list)
  /\ \A l \in AllLocks : SortedByPriority(waiters[l])

\* ---------------------------------------------------------------------- C5
\* No READY thread outranks the running thread.
HighestRuns ==
  \A t \in AllThreads : status[t] = "READY" => priority[t] <= priority[running]

\* A readying or priority-changing operation completes: thread_create,
\* sema_up, the timer interrupt, thread_set_priority, a donation followed by
\* the donor's sema_down.
EventCompletes ==
  \/ timer_interrupt
  \/ \E t \in AllThreads : TcPreempt(t) \/ LrUp(t) \/ SpPreempt(t) \/ LaDown(t)

\* The running thread is a thread other than the idle thread, in its own
\* code, outside every kernel operation, with interrupts enabled.
InUserCode == running # idle_thread /\ pc[running] = "user"

\* C5: once such an operation has completed and interrupts are enabled
\* again, the highest-priority ready thread runs.
C5_StrictPriority == [][(EventCompletes /\ InUserCode') => HighestRuns']_vars

\* ---------------------------------------------------------------------- C6
\* C6: whenever no thread is inside a donation or a recomputation, a thread
\* parked in lock_acquire(L) has waiting_lock = L, is on L's waiters and is
\* on the donators of L's holder, if L has one.
C6_BlockedOnLock ==
  Settled =>
    \A t \in AllThreads, l \in AllLocks :
      ParkedOn(t, l) =>
        /\ waiting_lock[t] = l
        /\ t \in Elems(waiters[l])
        /\ holder[l] # NULL => t \in Elems(donators[holder[l]])

\* ---------------------------------------------------------------------- C7
\* The holders donate_priority visits from h: h, the holder of the lock h
\* waits for, and so on, MAX_DEPTH of them at most.
RECURSIVE HolderChain(_, _)
HolderChain(h, depth) ==
  IF h = NULL \/ depth >= MAX_DEPTH THEN {}
  ELSE {h} \cup (IF waiting_lock[h] # NULL
                 THEN HolderChain(holder[waiting_lock[h]], depth + 1)
                 ELSE {})

\* C7: when a thread of priority p donates in lock_acquire(L), L having a
\* holder, every holder on the chain from L's holder has priority >= p
\* afterwards, and every thread whose priority was already >= p keeps it.
C7_NestedDonation ==
  [][\A t \in AllThreads :
       (LaDonate(t) /\ holder[arg[t]] # NULL) =>
         /\ \A h \in HolderChain(holder[arg[t]], 0) :
              priority'[h] >= priority[t]
         /\ \A h \in AllThreads :
              priority[h] >= priority[t] => priority'[h] = priority[h]]_vars

\* A donor has just donated through two locks: it is about to park on a lock
\* whose holder waits for a second lock, and both holders were raised above
\* their base priority to the donor's.
C7_Witness ==
  \E t, h1, h2 \in AllThreads :
    /\ pc[t] = "la_down" /\ running = t /\ waiting_lock[t] = arg[t]
    /\ h1 = holder[arg[t]] /\ h1 # NULL
    /\ waiting_lock[h1] # NULL /\ h2 = holder[waiting_lock[h1]] /\ h2 # NULL
    /\ h2 # h1
    /\ priority[h1] = priority[t] /\ original_priority[h1] < priority[t]
    /\ priority[h2] = priority[t] /\ original_priority[h2] < priority[t]

\* ---------------------------------------------------------------------- C8
\* The i-th holder on the chain that starts at h, NULL if the chain ends
\* before it.
RECURSIVE HolderAt(_, _)
HolderAt(h, i) ==
  IF i = 1 THEN h
  ELSE LET prev == HolderAt(h, i - 1)
       IN IF prev = NULL \/ waiting_lock[prev] = NULL THEN NULL
          ELSE holder[waiting_lock[prev]]

\* C8: a donation raises the first 8 holders of the chain to the donor's
\* priority where they were below it, so the tail of a chain of exactly 8
\* is reached; it leaves the 9th holder and every later one untouched; and
\* it is no error: the donor goes on to its sema_down.
C8_DepthBoundary ==
  [][\A t \in AllThreads :
       (LaDonate(t) /\ holder[arg[t]] # NULL) =>
         /\ \A i \in 1..Cardinality(AllThreads) :
              LET h == HolderAt(holder[arg[t]], i)
              IN h # NULL =>
                   priority'[h] = IF i <= 8
                                  THEN Max({priority[h], priority[t]})
                                  ELSE priority[h]
         /\ ~panic' /\ pc'[t] = "la_down"]_vars

\* A donor has donated into a chain of 9 holders: the first 8 were raised
\* from below to its priority, the 9th still has its lower priority.
C8_Witness ==
  \E t \in AllThreads :
    /\ pc[t] = "la_down" /\ running = t /\ holder[arg[t]] # NULL
    /\ \A i \in 1..8 :
         LET h == HolderAt(holder[arg[t]], i)
         IN h # NULL /\ priority[h] = priority[t]
                     /\ original_priority[h] < priority[t]
    /\ LET h == HolderAt(holder[arg[t]], 9)
       IN h # NULL /\ waiting_lock[h] = NULL /\ priority[h] < priority[t]

\* ---------------------------------------------------------------------- C9
\* t executes a statement of lock_release after the removal of donations.
ReleaseTail(t) ==
  \/ pc[t] \in {"lr_base", "lr_donor"} /\ (RecalcBase(t) \/ RecalcDonor(t))
  \/ LrClear(t)
  \/ LrUp(t)

\* C9: lock_release(L) takes out of the releasing thread's donators exactly
\* the donors whose waiting_lock is L; the other donors stay, in the same
\* relative order, and no later statement of lock_release touches the list.
C9_SelectiveRemoval ==
  [][\A t \in AllThreads :
       /\ \A l \in AllLocks :
            LockRelease(t, l) =>
              /\ Elems(donators'[t]) =
                   {d \in Elems(donators[t]) : waiting_lock[d] # l}
              /\ Len(donators'[t]) = Cardinality(Elems(donators'[t]))
              /\ \A d1, d2 \in Elems(donators'[t]) :
                   Pos(donators'[t], d1) < Pos(donators'[t], d2)
                     <=> Pos(donators[t], d1) < Pos(donators[t], d2)
              /\ \A u \in AllThreads \ {t} : donators'[u] = donators[u]
       /\ ReleaseTail(t) => donators' = donators]_vars

\* A release has just taken a donor that waits for the released lock out of
\* a list in which two donors that wait for another lock remain.
C9_Witness ==
  \E t, d \in AllThreads :
    /\ pc[t] = "lr_base" /\ running = t
    /\ ParkedOn(d, arg[t]) /\ waiting_lock[d] = arg[t]
    /\ d \notin Elems(donators[t])
    /\ Len(donators[t]) >= 2
    /\ \A e \in Elems(donators[t]) :
         waiting_lock[e] # arg[t] /\ holder[waiting_lock[e]] = t

\* --------------------------------------------------------------------- C10
\* The threads parked on a lock that t holds, other than lock l.
StillBlockedOn(t, l) ==
  {d \in AllThreads : \E k \in AllLocks \ {l} : holder[k] = t /\ ParkedOn(d, k)}

\* C10: when lock_release(L) has recomputed the releasing thread's
\* priority, it is the maximum of the thread's base priority and the
\* priorities of the threads still parked on the other locks it holds.
C10_PriorityAfterRelease ==
  \A t \in AllThreads :
    (pc[t] = "lr_clear" /\ running = t) =>
      priority[t] = Max({original_priority[t]}
                        \cup {priority[d] : d \in StillBlockedOn(t, arg[t])})

\* --------------------------------------------------------------------- C11
\* d's donation to t is outstanding: d is on t's donators and parked on a
\* lock that t holds.
Outstanding(d, t) ==
  /\ d \in Elems(donators[t])
  /\ \E l \in AllLocks : holder[l] = t /\ ParkedOn(d, l) /\ waiting_lock[d] = l

\* What thread_get_priority() returns to t, against t's base priority and
\* its donators.
GetAfterSet(t) ==
  /\ thread_get_priority(t) =
       IF donators[t] # <<>>
       THEN Max({original_priority[t], priority[Head(donators[t])]})
       ELSE original_priority[t]
  /\ \A d \in AllThreads :
       Outstanding(d, t) => thread_get_priority(t) >= priority[d]

\* C11: thread_set_priority(p) makes p the base priority, and when it
\* returns thread_get_priority() gives max(p, the front donor's priority)
\* with donors and p without, which is not below any outstanding donation.
C11_SetThenGet ==
  [][\A t \in AllThreads :
       /\ \A p \in PRI_MIN..PRI_MAX :
            ThreadSetPriority(t, p) => original_priority'[t] = p
       /\ SpPreempt(t) => GetAfterSet(t)']_vars

\* --------------------------------------------------------------------- C12
\* No thread has lock l.
LockFree(l) == \A u \in AllThreads : ~HasLock(u, l)

\* C12: lock_try_acquire on a lock another thread holds returns false and
\* changes no holder, semaphore, priority, donators list or waiting_lock,
\* and the caller keeps running; on a free lock it takes the semaphore and
\* makes the caller the holder, again without donating or blocking.
C12_TryAcquire ==
  [][\A t \in AllThreads :
       /\ \A l \in AllLocks :
            /\ (LockTryAcquire(t, l) /\ holder[l] \notin {NULL, t}) =>
                 UNCHANGED <<holder, value, waiters, priority, original_priority,
                             donators, waiting_lock, status, running,
                             ready_list, pc>>
            /\ (LockTryAcquire(t, l) /\ LockFree(l)) =>
                 /\ pc'[t] = "ta_hold" /\ arg'[t] = l
                 /\ value'[l] = 0
                 /\ UNCHANGED <<holder, waiters, priority, original_priority,
                                donators, waiting_lock, status, running>>
       /\ TaHold(t) =>
            /\ holder'[arg[t]] = t /\ pc'[t] = "user"
            /\ UNCHANGED <<value, waiters, priority, original_priority,
                           donators, waiting_lock, status, running>>]_vars

\* A thread has taken a free lock's semaphore without blocking and is about
\* to become its holder, while it has left a lock alone that another thread
\* holds.
C12_Witness ==
  \E t \in AllThreads, l, k \in AllLocks :
    /\ running = t /\ status[t] = "RUNNING"
    /\ pc[t] = "ta_hold" /\ arg[t] = l /\ holder[l] = NULL /\ value[l] = 0
    /\ holder[k] \notin {NULL, t} /\ value[k] = 0
    /\ waiting_lock[t] = NULL
    /\ t \notin Elems(donators[holder[k]])

\* --------------------------------------------------------------------- C13
\* The sema_up of t's lock_release takes x off the waiters and makes it
\* ready (or running, when it preempts t at once).
Wakes(t, x) ==
  /\ LrUp(t)
  /\ x \in Elems(waiters[arg[t]])
  /\ Elems(waiters'[arg[t]]) = Elems(waiters[arg[t]]) \ {x}
  /\ status[x] = "BLOCKED" /\ status'[x] \in {"READY", "RUNNING"}

\* x has the highest effective priority of the threads waiting on l.
HighestWaiter(l, x) ==
  \A y \in Elems(waiters[l]) : priority[x] >= priority[y]

\* x went to wait on l before every other waiter of its priority.
FirstOfEquals(l, x) ==
  \A y \in Elems(waiters[l]) \ {x} :
    priority[y] = priority[x] => Pos(arrivals[l], x) < Pos(arrivals[l], y)

\* C13: a sema_up on a semaphore with waiters wakes exactly one of them,
\* the one of highest effective priority at that moment and, among waiters
\* of equal priority, the one that was enqueued first.
C13_WakeOrder ==
  [][\A t \in AllThreads :
       (LrUp(t) /\ waiters[arg[t]] # <<>>) =>
         \E x \in AllThreads :
           /\ Wakes(t, x)
           /\ HighestWaiter(arg[t], x)
           /\ FirstOfEquals(arg[t], x)]_vars

\* The first half of C13 alone: the woken waiter has the highest effective
\* priority.
C13_WakesHighest ==
  [][\A t \in AllThreads :
       (LrUp(t) /\ waiters[arg[t]] # <<>>) =>
         \E x \in AllThreads : Wakes(t, x) /\ HighestWaiter(arg[t], x)]_vars

\* --------------------------------------------------------------------- C14
\* t was taken off l's waiters by a sema_up and has not yet gone round the
\* loop of its sema_down (synch.c:80-86).
WokenFrom(t, l) ==
  /\ pc[t] = "la_blocked" /\ arg[t] = l
  /\ status[t] \in {"READY", "RUNNING"}
  /\ t \notin Elems(waiters[l])

\* The statement of C14 as it was made, in the states a thread observes
\* from its own code: a positive value implies no waiters.
C14_PositiveMeansNoWaiters ==
  InUserCode => \A l \in AllLocks : value[l] > 0 => waiters[l] = <<>>

\* C14: a semaphore has a positive value and waiters at once only while a
\* thread that a sema_up took off its waiters has not yet resumed its
\* sema_down; otherwise value > 0 implies that waiters is empty.
C14_PositiveWithWaitersOnlyWhileWoken ==
  \A l \in AllLocks :
    (value[l] > 0 /\ waiters[l] # <<>>) =>
      \E t \in AllThreads : WokenFrom(t, l)

\* A sema_up on a semaphore with two waiters has woken one that did not
\* preempt the caller: back in its own code, the caller finds the value
\* positive and a waiter still queued.
C14_Witness ==
  \E l \in AllLocks, t \in AllThreads :
    /\ InUserCode /\ running # t
    /\ value[l] > 0 /\ waiters[l] # <<>>
    /\ WokenFrom(t, l) /\ status[t] = "READY"

\* --------------------------------------------------------------------- C15
\* C15: for every lock, holder = NULL if and only if the value of its
\* semaphore is 1, in every state that a thread observes from its own
\* code, those included in which a timer interrupt has switched threads
\* between lock_release's clearing of the holder and its sema_up, or
\* between an acquirer's decrement of the semaphore and its setting of the
\* holder.
C15_HolderIffValue ==
  InUserCode => \A l \in AllLocks : holder[l] = NULL <=> value[l] = 1

\* --------------------------------------------------------------------- C16
\* The threads whose status is THREAD_RUNNING.
RunningThreads == {t \in AllThreads : status[t] = "RUNNING"}

\* C16: at any instant exactly one thread has status RUNNING, and it is the
\* thread that thread_current() returns, after thread_init and after every
\* thread_block, thread_yield, thread_exit and preemption.
C16_ExactlyOneRunning ==
  /\ Cardinality(RunningThreads) = 1
  /\ RunningThreads = {running}

\* A thread runs its own code while another has exited and a third is
\* blocked: thread_exit, thread_block and the switches that follow them
\* have completed.
C16_Witness ==
  \E e, b \in AllThreads \ {idle_thread} :
    /\ status[e] = "DYING" /\ pc[e] = "exited"
    /\ status[b] = "BLOCKED"
    /\ running \notin {idle_thread, e, b}
    /\ status[running] = "RUNNING" /\ pc[running] = "user"

\* --------------------------------------------------------------------- C17
\* The statement of C17 as it was made: every thread, the idle thread
\* included, is on the ready list if and only if its status is READY.
C17_ReadyIffQueued ==
  \A t \in AllThreads : t \in Elems(ready_list) <=> status[t] = "READY"

\* C17: every thread but the idle thread is on the ready list if and only
\* if its status is READY; the idle thread is never on the ready list,
\* whatever its status.
C17_ReadyIffQueuedButIdle ==
  /\ \A t \in AllThreads \ {idle_thread} :
       t \in Elems(ready_list) <=> status[t] = "READY"
  /\ idle_thread \notin Elems(ready_list)

\* The only thread created has slept and runs again, so the idle thread ran
\* in between and gave way by the yield of a timer interrupt: it is READY
\* and not queued.
C17_Witness ==
  /\ status[idle_thread] = "READY"
  /\ idle_thread \notin Elems(ready_list)
  /\ \A t \in AllThreads \ {idle_thread, initial_thread} : status[t] = "NEW"
  /\ running = initial_thread /\ pc[initial_thread] = "user"
  /\ wakeup_tick[initial_thread] > 0
  /\ initial_thread \notin Elems(sleep_list)

\* --------------------------------------------------------------------- C18
\* t is inside timer_sleep: it has computed its wakeup_tick and is about
\* to block, or it is on the sleep list.
InTimerSleep(t) == pc[t] = "ts_block" \/ t \in Elems(sleep_list)

\* C18: timer_sleep(n) called at tick T0 sets the deadline T0 + n and
\* blocks the caller on the sleep list, and no step makes a thread on the
\* sleep list READY or RUNNING, takes it off the list or moves its deadline
\* before the tick counter has reached the deadline.
C18_NoEarlyWake ==
  [][\A t \in AllThreads :
       /\ \A n \in SleepArgs :
            TimerSleep(t, n) => wakeup_tick'[t] = ticks + n
       /\ InTimerSleep(t) => wakeup_tick'[t] = wakeup_tick[t]
       /\ TsBlock(t) => t \in Elems(sleep_list') /\ status'[t] = "BLOCKED"
       /\ (t \in Elems(sleep_list) /\ ticks' < wakeup_tick[t]) =>
            /\ status[t] = "BLOCKED" /\ status'[t] = "BLOCKED"
            /\ t \in Elems(sleep_list')]_vars

\* A sleeper with a positive argument is blocked on the sleep list after a
\* tick that has not reached its deadline, while a thread that slept
\* before it runs again after its own deadline.
C18_Witness ==
  \E t, u \in AllThreads :
    /\ t \in Elems(sleep_list) /\ status[t] = "BLOCKED"
    /\ ticks > 0 /\ ticks < wakeup_tick[t]
    /\ u # t /\ running = u /\ pc[u] = "user"
    /\ wakeup_tick[u] > 0 /\ wakeup_tick[u] <= ticks
    /\ u \notin Elems(sleep_list)

\* --------------------------------------------------------------------- C19
\* C19: every timer interrupt makes READY each thread on the sleep list
\* whose wakeup_tick is at most the new tick count, whatever its priority
\* and however late its deadline was (a timer_sleep(n) with n <= 0 is
\* released by the next interrupt), and leaves the other sleepers blocked
\* on the list: after the interrupt no thread with wakeup_tick <= ticks
\* remains on the sleep list.
C19_WakeByDeadline ==
  [][ticks' = ticks + 1 =>
       /\ \A t \in Elems(sleep_list) :
            IF wakeup_tick[t] <= ticks'
            THEN t \notin Elems(sleep_list') /\ status'[t] \in {"READY", "RUNNING"}
            ELSE t \in Elems(sleep_list') /\ status'[t] = "BLOCKED"
       /\ \A t \in Elems(sleep_list') : wakeup_tick[t] > ticks']_vars

\* A thread has woken at its deadline while a thread of higher priority
\* with a later deadline still sleeps, and a thread that slept with a
\* negative argument has been released.
C19_Witness ==
  \E a, b, c \in AllThreads :
    /\ priority[a] < priority[b]
    /\ pc[a] = "user" /\ a \notin Elems(sleep_list)
    /\ status[a] \in {"READY", "RUNNING"}
    /\ wakeup_tick[a] > 0 /\ wakeup_tick[a] <= ticks
    /\ b \in Elems(sleep_list) /\ wakeup_tick[b] > ticks
    /\ pc[c] = "user" /\ c \notin Elems(sleep_list)
    /\ status[c] \in {"READY", "RUNNING"}
    /\ wakeup_tick[c] < 0

\* --------------------------------------------------------------------- C20
\* C20: a sema_up called inside an interrupt handler never suspends the
\* interrupted thread and never aborts, also when the waiter it wakes has a
\* strictly higher priority than the interrupted thread.
C20_SemaUpFromInterrupt ==
  [][\A s \in AllSemas : IsrSemaUp(s) => ~panic' /\ running' = running]_vars

\* --------------------------------------------------------------------- C21
\* A cond_signal takes x's semaphore_elem off cv's waiters.
Signals(cv, x) ==
  /\ x \in Elems(cond_waiters[cv])
  /\ Elems(cond_waiters'[cv]) = Elems(cond_waiters[cv]) \ {x}

\* C21: each cond_signal wakes, among the waiters on cv.waiters, the one
\* whose waiting thread has the highest effective priority at that moment.
C21_SignalWakesHighest ==
  [][\A cv \in AllConds, x \in AllThreads :
       Signals(cv, x) =>
         \A y \in Elems(cond_waiters[cv]) : priority[x] >= priority[y]]_vars

\* The same for the signals that find every waiter parked on its
\* semaphore.
C21_SignalWakesHighestParked ==
  [][\A cv \in AllConds, x \in AllThreads :
       (Signals(cv, x) /\ \A y \in Elems(cond_waiters[cv]) : waiters[Slot(y)] = <<y>>) =>
         \A y \in Elems(cond_waiters[cv]) : priority[x] >= priority[y]]_vars

\* --------------------------------------------------------------------- C22
\* t is inside cond_wait (not cond_broadcast, which uses cond_arg too).
InCondWait(t) == cond_arg[t] # NULL /\ pc[t] # "cb_loop"

\* t is in cond_wait between its lock_release and its lock_acquire.
CondWaiting(t) == pc[t] \in {"cw_down", "cw_blocked", "cw_acquire"}

\* C22: cond_wait has released the lock when the caller blocks on its
\* semaphore and returns only when the caller holds the lock again;
\* cond_signal leaves the signaller the holder of the lock; and a thread
\* becomes the holder only by its own lock_acquire or lock_try_acquire of a
\* lock that has no holder, the thread woken by a signal included.
C22_CondWaitAndLock ==
  [][\A t \in AllThreads :
       /\ CondWaiting(t)' => holder'[arg'[t]] # t
       /\ (InCondWait(t) /\ ~InCondWait(t)') =>
            pc'[t] = "user" /\ holder'[arg[t]] = t
       /\ \A cv \in AllConds, l \in AllLocks :
            CondSignal(t, cv, l) => holder' = holder /\ holder'[l] = t
       /\ \A l \in AllLocks :
            (holder'[l] = t /\ holder[l] # t) =>
              /\ holder[l] = NULL /\ value[l] = 0
              /\ pc[t] \in {"la_hold", "ta_hold"} /\ arg[t] = l /\ running = t]_vars

\* A thread that waited on the condition and was signalled holds the lock
\* again and is about to return from cond_wait.
C22_Witness ==
  \E t \in AllThreads :
    /\ InCondWait(t) /\ pc[t] = "la_clear" /\ holder[arg[t]] = t
    /\ running = t /\ value[Slot(t)] = 0
    /\ t \notin Elems(cond_waiters[cond_arg[t]])

\* --------------------------------------------------------------------- C23
\* x enters the ready list in this step.
EntersReady(x) == x \notin Elems(ready_list) /\ x \in Elems(ready_list')

\* y is on the ready list before and after this step.
StaysReady(y) == y \in Elems(ready_list) /\ y \in Elems(ready_list')

\* C23: threads of equal effective priority are dispatched in the order in
\* which they entered the ready queue: a thread that enters it (by
\* thread_yield or thread_unblock) goes behind every READY thread of the
\* same priority and ahead of every READY thread of lower priority, and the
\* threads already queued keep their order.
C23_ReadyFifo ==
  [][\A x, y \in AllThreads :
       /\ (EntersReady(x) /\ StaysReady(y)) =>
            /\ priority'[y] = priority'[x] =>
                 Pos(ready_list', y) < Pos(ready_list', x)
            /\ priority'[y] < priority'[x] =>
                 Pos(ready_list', x) < Pos(ready_list', y)
       /\ (StaysReady(x) /\ StaysReady(y)) =>
            (Pos(ready_list, x) < Pos(ready_list, y)
               <=> Pos(ready_list', x) < Pos(ready_list', y))]_vars

\* The same discipline at the steps that start from a ready list in
\* priority order.
C23_ReadyFifoWhenSorted ==
  [][SortedByPriority(ready_list) =>
       \A x, y \in AllThreads :
         /\ (EntersReady(x) /\ StaysReady(y)) =>
              /\ priority'[y] = priority'[x] =>
                   Pos(ready_list', y) < Pos(ready_list', x)
              /\ priority'[y] < priority'[x] =>
                   Pos(ready_list', x) < Pos(ready_list', y)
         /\ (StaysReady(x) /\ StaysReady(y)) =>
              (Pos(ready_list, x) < Pos(ready_list, y)
                 <=> Pos(ready_list', x) < Pos(ready_list', y))]_vars

\* --------------------------------------------------------------------- C24
\* The thread t's thread_create has just made READY.
Created(t) == arg[t]

\* This step is t's thread_create as far as thread_unblock(c).
Creates(t, c) ==
  running = t /\ pc[t] = "user" /\ pc'[t] = "tc_preempt" /\ arg'[t] = c

\* The creator t leaves the CPU in this step, and the thread it created
\* either takes it or is queued ahead of the creator, so it is dispatched
\* before the creator resumes in thread_create.
CreatorGivesWay(t) ==
  /\ running' # t
  /\ \/ running' = Created(t)
     \/ /\ Created(t) \in Elems(ready_list')
        /\ Pos(ready_list', Created(t)) < Pos(ready_list', t)

\* C24: thread_create queues the new thread READY in priority order and
\* then checks for preemption: when the new thread's priority is strictly
\* higher than the creator's, the new thread runs before thread_create
\* returns; when it is equal or lower, the creator keeps running.
C24_CreatePreempts ==
  [][\A t \in AllThreads :
       TcPreempt(t) =>
         IF priority[Created(t)] > priority[t]
         THEN CreatorGivesWay(t)
         ELSE running' = t]_vars

\* The first half alone: a new thread of strictly higher priority runs
\* before thread_create returns to the creator.
C24_HigherRunsFirst ==
  [][\A t \in AllThreads :
       (TcPreempt(t) /\ priority[Created(t)] > priority[t]) =>
         CreatorGivesWay(t)]_vars

\* thread_create's preemption check finds the new thread queued where
\* thread_unblock put it: behind every thread of higher or equal priority
\* that was queued, ahead of every lower one.
C24_CreateQueuesInOrder ==
  [][\A t, c \in AllThreads :
       Creates(t, c) =>
         /\ status'[c] = "READY" /\ running' = t
         /\ \A y \in Elems(ready_list) :
              IF priority[y] >= priority'[c]
              THEN Pos(ready_list', y) < Pos(ready_list', c)
              ELSE Pos(ready_list', c) < Pos(ready_list', y)]_vars

\* --------------------------------------------------------------------- C25
\* The running thread gives up the CPU in this step: it blocks (in
\* sema_down or timer_sleep), yields or exits.
Reschedules == running' # running

\* C25: a thread other than the initial thread that has exited is on the
\* destruction queue, the initial thread is never queued there, and the
\* next rescheduling point of any kind (block, semaphore wait, sleep, yield
\* or exit) drains the queue and releases the storage of the threads on it.
C25_ReapedAtNextReschedule ==
  [][/\ \A t \in AllThreads \ {initial_thread} :
          status'[t] = "DYING" => t \in Elems(destruction_req')
     /\ initial_thread \notin Elems(destruction_req')
     /\ Reschedules =>
          \A d \in Elems(destruction_req) :
            status'[d] = "FREED" /\ d \notin Elems(destruction_req')]_vars

\* What the code does: the queue is drained by do_schedule, that is at a
\* yield or an exit; a thread that blocks leaves it as it is.
C25_ReapedAtNextYieldOrExit ==
  [][/\ \A t \in AllThreads \ {initial_thread} :
          status'[t] = "DYING" => t \in Elems(destruction_req')
     /\ initial_thread \notin Elems(destruction_req')
     /\ Reschedules =>
          \A d \in Elems(destruction_req) :
            IF status'[running] \in {"READY", "DYING"}
            THEN status'[d] = "FREED" /\ d \notin Elems(destruction_req')
            ELSE status'[d] = "DYING" /\ d \in Elems(destruction_req')]_vars

\* --------------------------------------------------------------------- C26
\* The places inside the donation bookkeeping: lock_acquire between its
\* insertion into the holder's donators and the donation walk, lock_release
\* between remove_donations and the end of recaculate_priority, and
\* thread_set_priority inside recaculate_priority.
InsideDonation == {"la_donate", "lr_base", "lr_donor", "sp_donor"}

\* This step is a timer interrupt.
TimerFires == ticks' = ticks + 1

\* C26: the shared lists are accessed with interrupts disabled; in
\* particular the donors-list insertion and donation walk of lock_acquire
\* and the donors-list removal and priority recomputation of lock_release
\* and thread_set_priority are not interleaved with a timer interrupt.
C26_NoInterruptInsideDonation ==
  [][TimerFires => pc[running] \notin InsideDonation]_vars

\* The timer interrupt is taken between statements of ordinary code and
\* never inside sema_down's critical section.
C26_NoInterruptInsideSemaDown ==
  [][TimerFires => pc[running] \notin {"la_blocked", "sd_blocked", "cw_blocked"}]_vars

\* --------------------------------------------------------------------- C27
\* The places inside lock_acquire.
InLockAcquire ==
  {"la_wait", "la_insert", "la_donate", "la_down", "la_blocked", "la_hold", "la_clear"}

\* C27: no deadlock or starvation.  Under weak fairness of the timer
\* interrupt and of the running thread's steps, when every thread releases
\* the locks it takes and no cycle of waiting threads forms, every thread
\* that calls lock_acquire eventually returns from it.
C27_AcquireReturns ==
  \A t \in 0..LiveThreads :
    (pc[t] \in InLockAcquire) ~> (pc[t] \notin InLockAcquire)

\* The same as long as the kernel has not halted.
C27_AcquireReturnsOrHalts ==
  \A t \in 0..LiveThreads :
    (pc[t] \in InLockAcquire) ~> (pc[t] \notin InLockAcquire \/ panic)

\* --------------------------------------------------------------------- C28
\* x stands in list where its priority puts it: no thread ahead of it has
\* a lower priority and no thread behind it a higher one.
InPriorityOrder(list, x) ==
  \A y \in Elems(list) \ {x} :
    IF Pos(list, y) < Pos(list, x)
    THEN priority[y] >= priority[x]
    ELSE priority[y] <= priority[x]

\* thread_unblock(x) leaves the CPU with the thread that called it.
NoPreemption ==
  running' = running /\ status'[running] = "RUNNING" /\ UNCHANGED thread_ticks

\* No queue changes in this step.
QueuesUnchanged ==
  UNCHANGED <<status, ready_list, waiters, sleep_list, destruction_req, cond_waiters>>

\* C28: thread_unblock(x) on a BLOCKED thread makes x READY and inserts it
\* into the ready queue in priority order without preempting: the thread
\* that was RUNNING is still RUNNING when it returns, even when x has the
\* higher priority.  On a thread that is not BLOCKED it halts the kernel
\* and changes no queue.
C28_Unblock ==
  [][\A t, x \in AllThreads :
       ThreadUnblock(t, x) =>
         IF status[x] = "BLOCKED"
         THEN /\ status'[x] = "READY"
              /\ x \in Elems(ready_list') /\ InPriorityOrder(ready_list', x)
              /\ NoPreemption /\ ~panic'
         ELSE panic' /\ QueuesUnchanged]_vars

\* The same without the position in the ready queue.
C28_UnblockNoPreempt ==
  [][\A t, x \in AllThreads :
       ThreadUnblock(t, x) =>
         IF status[x] = "BLOCKED"
         THEN /\ status'[x] = "READY"
              /\ x \in Elems(ready_list')
              /\ NoPreemption /\ ~panic'
         ELSE panic' /\ QueuesUnchanged]_vars

\* --------------------------------------------------------------------- C29
\* C29: for every thread priority >= base priority, and priority = base
\* priority whenever the thread's donors list is empty; stated of the
\* states in which no thread is in the middle of the donation bookkeeping.
C29_PriorityAboveBase ==
  Settled =>
    \A t \in AllThreads :
      /\ priority[t] >= original_priority[t]
      /\ donators[t] = <<>> => priority[t] = original_priority[t]

\* The first half alone.
C29_NeverBelowBase ==
  Settled => \A t \in AllThreads : priority[t] >= original_priority[t]

\* --------------------------------------------------------------------- C30
\* No lock holder, semaphore value or queue changes in this step.
NothingModified ==
  UNCHANGED <<holder, value, waiters, cond_waiters, ready_list, sleep_list,
              destruction_req, donators, status, running>>

\* This step is a call that breaks a contract: lock_acquire or
\* lock_try_acquire of a lock the caller holds, lock_release of a lock it
\* does not hold, or sema_down, lock_acquire, cond_wait, thread_yield or
\* thread_block in an interrupt handler.
BreaksContract ==
  \/ \E t \in AllThreads, l \in AllLocks :
       /\ holder[l] = t
       /\ \/ LockAcquire(t, l) \/ LockAcquireHeld(t, l)
          \/ LockTryAcquire(t, l) \/ LockTryAcquireHeld(t, l)
  \/ \E t \in AllThreads, l \in AllLocks :
       /\ holder[l] # t
       /\ LockRelease(t, l) \/ LockReleaseNotHeld(t, l)
  \/ \E s \in DOMAIN value : IsrSemaDown(s)
  \/ \E l \in AllLocks : IsrLockAcquire(l)
  \/ \E cv \in AllConds, l \in AllLocks : IsrCondWait(cv, l)
  \/ IsrThreadYield
  \/ IsrThreadBlock

\* C30: a contract violation halts the kernel: each of these calls stops
\* at an assertion before the lock holder, any semaphore value or any queue
\* has been modified, and once halted nothing changes any more.
C30_ViolationsHalt ==
  [][/\ BreaksContract => panic' /\ NothingModified
     /\ panic => UNCHANGED vars]_vars

\* The kernel has halted at a violated contract while a thread holds the
\* lock and another waits on the condition variable.
C30_Witness ==
  /\ panic
  /\ \E l \in AllLocks : holder[l] # NULL /\ value[l] = 0
  /\ \E cv \in AllConds : cond_waiters[cv] # <<>>

\* --------------------------------------------------------------------- C31
\* The changes of status of the state machine; "FREED" stands for the page
\* of a dying thread having been released, after which it has no status.
StateMachine ==
  {<<"NEW", "READY">>, <<"BLOCKED", "READY">>, <<"READY", "RUNNING">>,
   <<"RUNNING", "BLOCKED">>, <<"RUNNING", "READY">>, <<"RUNNING", "DYING">>,
   <<"DYING", "FREED">>}

\* t is taken off a semaphore's waiters or off the sleep list in this step:
\* thread_unblock(t) is part of it.
UnblockedInStep(t) ==
  \/ \E l \in DOMAIN waiters :
       t \in Elems(waiters[l]) /\ t \notin Elems(waiters'[l])
  \/ t \in Elems(sleep_list) /\ t \notin Elems(sleep_list')

\* t's change of status in this step is one of the state machine, or an
\* unblock followed by a dispatch inside one interrupts-off section.
FollowsStateMachine(t) ==
  \/ status'[t] = status[t]
  \/ <<status[t], status'[t]>> \in StateMachine
  \/ /\ <<status[t], status'[t]>> = <<"BLOCKED", "RUNNING">>
     /\ UnblockedInStep(t)

\* C31: every change of a thread's status follows the state machine, for
\* every thread, the idle thread when it is selected because the ready
\* queue is empty included, and no thread leaves DYING.
C31_StateMachine ==
  [][\A t \in AllThreads : FollowsStateMachine(t)]_vars

\* The same with the one exception the scheduler makes: the idle thread,
\* BLOCKED in its loop, is set RUNNING by schedule() without an unblock
\* when the ready queue is empty.
C31_StateMachineButIdle ==
  [][\A t \in AllThreads :
       \/ FollowsStateMachine(t)
       \/ /\ t = idle_thread /\ ready_list = <<>> /\ ready_list' = <<>>
          /\ <<status[t], status'[t]>> = <<"BLOCKED", "RUNNING">>]_vars

\* The idle thread runs after having been dispatched from BLOCKED, and
\* other threads are blocked, dying and freed.
C31_Witness ==
  /\ running = idle_thread /\ status[idle_thread] = "RUNNING"
  /\ pc[idle_thread] = "idle_hlt"
  /\ \E t \in AllThreads : status[t] = "BLOCKED"
  /\ \E t \in AllThreads : status[t] \in {"DYING", "FREED"}

\* --------------------------------------------------------------------- C32
\* The idle thread takes the CPU from another thread in this step.
IdleDispatched == running # idle_thread /\ running' = idle_thread

YieldRequested ==
  /\ thread_ticks' = 0
  /\ running' = running \/ status'[running] = "READY"

\* The counter after a tick that counts: one more, or a yield at TIME_SLICE.
TickCounts ==
  IF thread_ticks + 1 >= TIME_SLICE
  THEN YieldRequested
  ELSE thread_ticks' = thread_ticks + 1 /\ running' = running

\* C33: the tick counter is reset to 0 at every dispatch and incremented on
\* each timer tick while a thread other than the idle thread runs, not
\* while the idle thread runs; at TIME_SLICE the interrupt requests a yield
\* on return, so no thread stays RUNNING through TIME_SLICE consecutive
\* ticks.
C33_TimeSlice ==
  [][/\ thread_ticks' < TIME_SLICE
     /\ Reschedules => thread_ticks' = 0
     /\ TimerFires =>
          IF running = idle_thread
          THEN thread_ticks' = thread_ticks /\ running' = running
          ELSE TickCounts]_vars

\* The same with the counter incremented on every tick, whichever thread
\* runs.
C33_TimeSliceIdleToo ==
  [][/\ thread_ticks' < TIME_SLICE
     /\ Reschedules => thread_ticks' = 0
     /\ TimerFires => TickCounts]_vars

\* A thread other than the idle thread was preempted at the end of its
\* slice: it is READY behind the thread that took the CPU, on the tick that
\* ended its slice.
C33_Witness ==
  /\ thread_ticks = 0 /\ ticks >= TIME_SLICE
  /\ running # idle_thread
  /\ \E t \in Elems(ready_list) : t # idle_thread /\ priority[t] = priority[running]

\* --------------------------------------------------------------------- C34
\* A cond_wait puts x's semaphore_elem on cv's waiters.
Enqueues(cv, x) ==
  /\ x \notin Elems(cond_waiters[cv])
  /\ x \in Elems(cond_waiters'[cv])

\* x's semaphore_elem has a thread parked on its semaphore.
Parked(x) == waiters[Slot(x)] # <<>>

\* C34: whenever compare_sema_priority runs, both semaphore_elems it is
\* given have a thread parked on their semaphore: in the insertion of
\* cond_wait, which compares the new element with the front of a condition
\* that has waiters, and in the sort of cond_signal, which compares every
\* element of a condition that has two or more.
C34_ComparatorSlotsParked ==
  [][\A cv \in AllConds :
       /\ \A x \in AllThreads :
            (Enqueues(cv, x) /\ cond_waiters[cv] # <<>>) =>
              Parked(x)' /\ Parked(Head(cond_waiters[cv]))
       /\ \A y \in AllThreads :
            (Signals(cv, y) /\ Len(cond_waiters[cv]) >= 2) =>
              \A x \in Elems(cond_waiters[cv]) : Parked(x)]_vars

\* The same for the sort of cond_signal alone.
C34_SortSlotsParked ==
  [][\A cv \in AllConds, y \in AllThreads :
       (Signals(cv, y) /\ Len(cond_waiters[cv]) >= 2) =>
         \A x \in Elems(cond_waiters[cv]) : Parked(x)]_vars

\* --------------------------------------------------------------------- C35
\* x is ahead of y on list.
Before(list, x, y) ==
  /\ x \in Elems(list) /\ y \in Elems(list)
  /\ Pos(list, x) < Pos(list, y)

\* The sleep list is ordered by wakeup_tick, smallest first.
SleepListSorted ==
  \A x, y \in AllThreads :
    Before(sleep_list, x, y) => wakeup_tick[x] <= wakeup_tick[y]

\* The sleep list holds only BLOCKED threads.
SleepersBlocked == \A t \in Elems(sleep_list) : status[t] = "BLOCKED"

\* C35: in every reachable state the sleep list is ordered by wakeup_tick,
\* smallest first, and holds only BLOCKED threads, and threads of equal
\* wakeup_tick are in the order in which they called timer_sleep.
C35_SleepListOrder ==
  /\ SleepListSorted
  /\ SleepersBlocked
  /\ \A x, y \in AllThreads :
       (Before(sleep_list, x, y) /\ wakeup_tick[x] = wakeup_tick[y]) =>
         Before(arrivals[SleepLog], x, y)

\* The same with threads of equal wakeup_tick in the order in which they
\* were inserted: a thread that enters the list goes behind every sleeper
\* of the same wakeup_tick, and the sleepers that stay keep their order.
C35_SleepListInsertionOrder ==
  [][/\ SleepListSorted' /\ SleepersBlocked'
     /\ \A x, y \in AllThreads :
          /\ (x \notin Elems(sleep_list) /\ Before(sleep_list', x, y)) =>
               wakeup_tick'[x] < wakeup_tick'[y]
          /\ (Before(sleep_list, x, y) /\ x \in Elems(sleep_list')) =>
               Before(sleep_list', x, y)]_vars

\* Three sleepers, two of them with the same wakeup_tick and not yet due,
\* the later one to insert itself behind the other.
C35_Witness ==
  \E x, y, z \in AllThreads :
    /\ Before(sleep_list, x, y) /\ Before(sleep_list, y, z)
    /\ wakeup_tick[x] < wakeup_tick[y]
    /\ wakeup_tick[y] = wakeup_tick[z]
    /\ Before(arrivals[SleepLog], y, z)
    /\ ticks > 0 /\ ticks < wakeup_tick[x]

\* --------------------------------------------------------------------- C36
\* The number of queues that hold t through its elem: the ready list, the
\* waiters of each semaphore, the sleep list and the destruction queue.
QueuesHolding(t) ==
  Cardinality({s \in DOMAIN waiters : t \in Elems(waiters[s])})
  + (IF t \in Elems(ready_list) THEN 1 ELSE 0)
  + (IF t \in Elems(sleep_list) THEN 1 ELSE 0)
  + (IF t \in Elems(destruction_req) THEN 1 ELSE 0)

\* C36: no thread is on two of the ready queue, a semaphore's waiters, the
\* sleep list and the destruction queue at once, and the RUNNING thread is
\* on none of them.
C36_OneQueue ==
  /\ \A t \in AllThreads : QueuesHolding(t) <= 1
  /\ \A t \in AllThreads : status[t] = "RUNNING" => QueuesHolding(t) = 0

\* A thread runs while one waits on a lock's semaphore and another is on
\* the sleep list, on the destruction queue or on the ready list.
C36_Witness ==
  /\ status[running] = "RUNNING" /\ running # idle_thread
  /\ \E t \in AllThreads, l \in AllLocks : t \in Elems(waiters[l])
  /\ (sleep_list # <<>> \/ destruction_req # <<>> \/ ready_list # <<>>)
  /\ \A t \in AllThreads \ {idle_thread} : status[t] # "NEW" => QueuesHolding(t) = 1 \/ t = running

\* --------------------------------------------------------------------- C37
\* The chain of holders that starts at h, whatever its length: h, the
\* holder of the lock h waits for, and so on.
RECURSIVE WholeChain(_, _)
WholeChain(h, seen) ==
  IF h = NULL \/ h \in seen THEN seen
  ELSE IF waiting_lock[h] = NULL THEN seen \cup {h}
       ELSE WholeChain(holder[waiting_lock[h]], seen \cup {h})

\* This step is a statement of t's lock_acquire.
LockAcquireStep(t) ==
  \/ \E l \in AllLocks : LockAcquire(t, l)
  \/ LaWait(t) \/ LaInsert(t) \/ LaDonate(t)
  \/ LaDown(t) \/ SemaDownResume(t)
  \/ LaHold(t) \/ LaClear(t)

DonorOf(d, t) ==
  /\ waiting_lock[d] # NULL
  /\ holder[waiting_lock[d]] = t

\* d is on the donators of at most one thread.
OneDonorsList(d) ==
  Cardinality({t \in AllThreads : d \in Elems(donators[t])}) <= 1

\* C38: in every reachable state, timer preemption included, each thread d
\* on t's donators is BLOCKED and waits for a lock whose holder is t, and d
\* is on the donators of one thread at most; so a thread that inserted
\* itself while the holder was between remove_donations and the clearing
\* of lock->holder is not on that list once it has the lock.
C38_NoStaleDonors ==
  \A t \in AllThreads :
    \A d \in Elems(donators[t]) :
      /\ status[d] = "BLOCKED"
      /\ DonorOf(d, t)
      /\ OneDonorsList(d)

\* The same without the status of the donor.
C38_DonorsWaitForHolder ==
  \A t \in AllThreads :
    \A d \in Elems(donators[t]) : DonorOf(d, t) /\ OneDonorsList(d)

\* The particular case: a thread that holds a lock and has returned from
\* lock_acquire is on no donators list.
C38_HolderIsNoDonor ==
  \A t, d \in AllThreads :
    (d \in Elems(donators[t]) /\ pc[d] = "user") => waiting_lock[d] # NULL

\* --------------------------------------------------------------------- C39
\* This step completes a sema_down or a successful sema_try_down of s: the
\* caller goes on to the statement after it.
DownCompletes(s) ==
  \E t \in AllThreads :
    \/ (LaDown(t) \/ SemaDownResume(t)) /\ arg[t] = s /\ pc'[t] = "la_hold"
    \/ (CwDown(t) \/ CwResume(t)) /\ s = Slot(t) /\ pc'[t] = "cw_acquire"
    \/ (SemaDown(t, s) \/ (SemaDownWake(t) /\ arg[t] = s)) /\ pc'[t] = "user"
    \/ \E l \in AllLocks : LockTryAcquire(t, l) /\ l = s /\ pc'[t] = "ta_hold"

\* This step is a sema_up of s.
UpCompletes(s) ==
  \/ \E t \in AllThreads : LrUp(t) /\ arg[t] = s
  \/ s \in AllSemas /\ IsrSemaUp(s)
  \/ \E cv \in AllConds, x \in AllThreads : Signals(cv, x) /\ s = Slot(x)

\* The running thread is a waiter of a sema_down that has been woken and
\* is about to test the value again.
WokenWaiter(t, s) ==
  /\ running = t /\ ~panic
  /\ \/ pc[t] = "la_blocked" /\ arg[t] = s
     \/ pc[t] = "cw_blocked" /\ s = Slot(t)
     \/ pc[t] = "sd_blocked" /\ arg[t] = s

\* C39: the value of every semaphore is its initial value plus the
\* sema_up calls minus the completed sema_down and successful
\* sema_try_down calls: a step changes it by +1 exactly when it is a
\* sema_up, by -1 exactly when a down completes, and not otherwise; it is
\* never negative; a down completes only on a positive value, and a woken
\* waiter that finds the value taken parks again; the semaphore of a lock
\* is 0 or 1.
C39_SemaphoreAccounting ==
  [][\A s \in DOMAIN value :
       /\ value'[s] >= 0
       /\ value'[s] - value[s] =
            (IF UpCompletes(s) THEN 1 ELSE 0) - (IF DownCompletes(s) THEN 1 ELSE 0)
       /\ DownCompletes(s) => value[s] > 0 /\ ~UpCompletes(s)
       /\ \A t \in AllThreads :
            (/\ WokenWaiter(t, s) /\ value[s] = 0
             /\ SemaDownResume(t) \/ CwResume(t) \/ SemaDownWake(t)) =>
              /\ pc'[t] = pc[t] /\ status'[t] = "BLOCKED"
              /\ t \in Elems(waiters'[s]) /\ value'[s] = 0
       /\ s \in AllLocks => value'[s] \in {0, 1}]_vars

\* A waiter of a lock's semaphore, woken by a sema_up, runs again and
\* finds the value 0: another thread has taken it in between.
C39_Witness ==
  \E t \in AllThreads, l \in AllLocks :
    /\ WokenWaiter(t, l) /\ pc[t] = "la_blocked"
    /\ value[l] = 0
    /\ t \notin Elems(waiters[l])
    /\ holder[l] \notin {NULL, t}

\* --------------------------------------------------------------------- C40
\* The state without the budget of calls.
AllButCalls ==
  <<status, priority, original_priority, donators, waiting_lock, wakeup_tick,
    pc, arg, holder, value, waiters, arrivals, cond_waiters, cond_arg,
    ready_list, destruction_req, sleep_list, ticks, thread_ticks, running,
    panic>>

\* This step takes y out of the BLOCKED state.
Unblocks(y) == status[y] = "BLOCKED" /\ status'[y] # "BLOCKED"

\* t leaves the blocking phase of cond_wait in this step: its sema_down of
\* its own semaphore completes.
LeavesCondBlock(t) == (CwDown(t) \/ CwResume(t)) /\ pc'[t] = "cw_acquire"

\* What holds of every step whatever the slot's thread was doing: a signal
\* on an empty condition changes nothing; the elements of a condition
\* leave it one at a time and stay in their order; a broadcast returns
\* only from an empty condition; a thread passes the sema_down of
\* cond_wait only on a value that a signal to its own element, popped
\* after it was enqueued, has made positive.
SignallingExact ==
  /\ \A t \in AllThreads, cv \in AllConds, l \in AllLocks :
       (CondSignal(t, cv, l) /\ cond_waiters[cv] = <<>>) => UNCHANGED AllButCalls
  /\ \A cv \in AllConds :
       Len(cond_waiters'[cv]) < Len(cond_waiters[cv]) =>
         /\ Len(cond_waiters'[cv]) = Len(cond_waiters[cv]) - 1
         /\ \E x \in AllThreads : Signals(cv, x)
  /\ \A t \in AllThreads :
       /\ (pc[t] = "cb_loop" /\ pc'[t] # "cb_loop") =>
            cond_waiters'[cond_arg[t]] = <<>>
       /\ (\E cv \in AllConds : Enqueues(cv, t)) => value'[Slot(t)] = 0
       /\ value'[Slot(t)] > value[Slot(t)] =>
            \E cv \in AllConds : Signals(cv, t)
       /\ LeavesCondBlock(t) =>
            /\ value[Slot(t)] > 0
            /\ t \notin Elems(cond_waiters[cond_arg[t]])

\* C40: signalling is exact.  A cond_signal on a condition without waiters
\* changes nothing; each cond_signal on a condition with waiters removes
\* one element and wakes the thread of that element and no other; a
\* cond_broadcast leaves the condition empty, each of its turns making
\* the thread of the element it pops READY; and a thread leaves the
\* blocking phase of cond_wait only through a signal or broadcast issued
\* after it enqueued its element.
C40_SignallingExact ==
  [][/\ SignallingExact
     /\ \A cv \in AllConds, x \in AllThreads :
          Signals(cv, x) =>
            /\ Unblocks(x)
            /\ \A y \in AllThreads \ {x} : ~Unblocks(y)]_vars

\* The same, the thread of the popped element being woken when it is
\* parked on its semaphore; when it has not reached its sema_down yet, the
\* signal stays in the value of its semaphore and nobody is woken.
C40_SignallingExactOnceParked ==
  [][/\ SignallingExact
     /\ \A cv \in AllConds, x \in AllThreads :
          Signals(cv, x) =>
            /\ value'[Slot(x)] = 1
            /\ IF Parked(x)
               THEN Unblocks(x) /\ waiters[Slot(x)] = <<x>> /\ ~Parked(x)'
               ELSE ~Unblocks(x) /\ pc[x] \in {"cw_release", "lr_base", "lr_donor", "lr_clear", "lr_up", "cw_down"}
            /\ \A y \in AllThreads \ {x} : ~Unblocks(y)]_vars

\* A broadcast has emptied a condition on which one thread was parked and
\* another had enqueued its element without having reached its sema_down:
\* the first is READY, the second will not block.
C40_Witness ==
  \E b, t, u \in AllThreads :
    /\ running = b /\ pc[b] = "cb_loop" /\ cond_waiters[cond_arg[b]] = <<>>
    /\ pc[t] = "cw_down" /\ value[Slot(t)] = 1 /\ cond_arg[t] = cond_arg[b]
    /\ pc[u] = "cw_blocked" /\ value[Slot(u)] = 1 /\ cond_arg[u] = cond_arg[b]
    /\ status[u] = "READY" /\ waiters[Slot(u)] = <<>>

====
